---- MODULE Spec2Model ----
(***************************************************************************)
(* Model of the news collector.  The specifications share the variables:   *)
(*   ScrapeSpec  one call of FootballUAScraper.scrape, step by step        *)
(*   DateSpec    one call of convertUkrainianDateToTimestamp               *)
(*   DedupSpec   one call of AnalyzerModule.startAnalyze by the callback   *)
(*   FormatSpec  startAnalyze, then formatData on what it returned         *)
(*   SaveSpec    one call of ArticlesRepository.saveArticles               *)
(*   ImageSpec   one call of updateArticleImages by the callback           *)
(*   SendSpec    one call of TelegramProvider.sendArticles                 *)
(*   DeliverySpec  the send tasks of one sendArticles call, step by step   *)
(*   ListingSpec one scrape call on a listing that may repeat an href      *)
(*   CaptionSpec one call of TelegramProvider.buildCaption                 *)
(*   Spec        the per-source scheduled pipeline of CollectorModule      *)
(*               (scrape -> analyze -> format -> update images -> send)    *)
(*                                                                         *)
(* Time is kept in epoch milliseconds counted from 24 November 2025 00:00  *)
(* local time, so that every timestamp fits a 32 bit integer.              *)
(***************************************************************************)
EXTENDS Integers, Sequences, FiniteSets, TLC

VARIABLES
  now,        \* Date.now(), in ms since 24.11.2025 00:00
  site,       \* the pages behind the links of the listing, in discovery order
  sc,         \* state of one FootballUAScraper.scrape call
  proc,       \* the host process: "boot", "running" or "exited"
  registry,   \* SourceModule.getSources()
  timers,     \* number of cron tasks scheduled per source id
  tick,       \* number of cron periods elapsed since start
  fired,      \* sources whose timer already fired in the current period
  cycles,     \* the running cron callbacks, one record per firing
  db,         \* rows of the articles table
  log,        \* history: the articles transmitted to the channel
  conv,       \* state of one convertUkrainianDateToTimestamp call
  an,         \* state of one AnalyzerModule.startAnalyze call
  st          \* state of one call of a later stage of the callback

vars ==
  <<now, site, sc, proc, registry, timers, tick, fired, cycles, db, log,
    conv, an, st>>

scraperVars == <<now, site, sc, conv, an, st>>
collectorVars == <<proc, registry, timers, tick, fired, cycles, db, log>>

----------------------------------------------------------------------------
(* Bounds of the model *)

MaxLinks == 3      \* links on one listing page
MaxRuns == 2       \* firings of the timers, over all sources

----------------------------------------------------------------------------
(* Constants of the program *)

HOURS_VALUE == 10
THREE_HOURS_IN_MS == HOURS_VALUE * 60 * 60 * 1000

\* the window the documentation of isArticleRecentEnough states
HoursDocumented == 3
DocumentedWindowMs == HoursDocumented * 60 * 60 * 1000

\* the value standing for a null article (no link has number 0)
Null == [link |-> 0, title |-> <<"T", 0>>, created |-> 0, image |-> FALSE, id |-> 0]

\* A stage result: the stage threw, returned null, or returned a list
Threw == [threw |-> TRUE, null |-> FALSE, items |-> <<>>]
NullResult == [threw |-> FALSE, null |-> TRUE, items |-> <<>>]
Items(list) == [threw |-> FALSE, null |-> FALSE, items |-> list]

----------------------------------------------------------------------------
(* Date texts *)

\* A text is a sequence of tokens: the separators "," " " ":" and words.
\* The month names of the site are written in Latin letters here:
\* LYSTOPADA is the genitive of November, HRUDNIA of December, and the
\* lower-case words are the same names as the site may print them.
Separators == { ",", " ", ":" }
Numerals == { "9", "16", "20", "24", "30", "2025" }
NumberOf ==
  [ t \in Numerals |->
      CASE t = "9" -> 9 [] t = "16" -> 16 [] t = "20" -> 20
        [] t = "24" -> 24 [] t = "30" -> 30 [] t = "2025" -> 2025 ]

\* String.prototype.trim
RECURSIVE trimStart(_)
trimStart(text) ==
  IF text # <<>> /\ Head(text) = " " THEN trimStart(Tail(text)) ELSE text

RECURSIVE trimEnd(_)
trimEnd(text) ==
  IF text # <<>> /\ text[Len(text)] = " "
  THEN trimEnd(SubSeq(text, 1, Len(text) - 1)) ELSE text

trim(text) == trimEnd(trimStart(text))

\* String.prototype.split: the fields between the separators, empty
\* fields included; a text without the separator is one field
RECURSIVE split(_, _)
split(text, separator) ==
  IF \A k \in 1..Len(text) : text[k] # separator THEN <<text>>
  ELSE LET k == CHOOSE j \in 1..Len(text) :
                  /\ text[j] = separator
                  /\ \A h \in 1..(j - 1) : text[h] # separator
       IN  <<SubSeq(text, 1, k - 1)>>
             \o split(SubSeq(text, k + 1, Len(text)), separator)

\* parseInt(field, 10): the leading numeral of the field, else NaN
parseInt(field) ==
  IF field # <<>> /\ field[1] \in Numerals
  THEN [nan |-> FALSE, n |-> NumberOf[field[1]]]
  ELSE [nan |-> TRUE, n |-> 0]

toUpperCaseNot(field) == field

\* String.prototype.toUpperCase
toUpperCase(field) ==
  [ k \in 1..Len(field) |->
      CASE field[k] = "lystopada" -> "LYSTOPADA"
        [] field[k] = "hrudnia" -> "HRUDNIA"
        [] OTHER -> field[k] ]

\* the twelve genitive month names, in upper case, with their 0-based number
UKRAINIAN_MONTHS ==
  [ m \in { "SICHNIA", "LIUTOHO", "BEREZNIA", "KVITNIA", "TRAVNIA",
            "CHERVNIA", "LYPNIA", "SERPNIA", "VERESNIA", "ZHOVTNIA",
            "LYSTOPADA", "HRUDNIA" } |->
      CASE m = "SICHNIA" -> 0 [] m = "LIUTOHO" -> 1 [] m = "BEREZNIA" -> 2
        [] m = "KVITNIA" -> 3 [] m = "TRAVNIA" -> 4 [] m = "CHERVNIA" -> 5
        [] m = "LYPNIA" -> 6 [] m = "SERPNIA" -> 7 [] m = "VERESNIA" -> 8
        [] m = "ZHOVTNIA" -> 9 [] m = "LYSTOPADA" -> 10
        [] m = "HRUDNIA" -> 11 ]

\* what a parsing step gives: an error, or its fields
ParseError == [threw |-> TRUE]

splitDateString(dateString) ==
  LET parts == split(trim(dateString), ",")
  IN  IF Len(parts) # 2 \/ parts[1] = <<>> \/ parts[2] = <<>>
      THEN ParseError
      ELSE [threw |-> FALSE, datePart |-> trim(parts[1]),
            timePart |-> trim(parts[2])]

parseDatePart(datePart) ==
  LET dateElements == split(datePart, " ")
  IN  IF Len(dateElements) # 3
         \/ \E k \in 1..Len(dateElements) : dateElements[k] = <<>>
      THEN ParseError
      ELSE [threw |-> FALSE, day |-> parseInt(dateElements[1]),
            monthName |-> toUpperCase(dateElements[2]),
            year |-> parseInt(dateElements[3])]

parseTimePart(timePart) ==
  LET timeElements == split(timePart, ":")
  IN  IF Len(timeElements) # 2
         \/ \E k \in 1..Len(timeElements) : timeElements[k] = <<>>
      THEN ParseError
      ELSE [threw |-> FALSE, hours |-> parseInt(timeElements[1]),
            minutes |-> parseInt(timeElements[2])]

getMonthNumber(monthName) ==
  IF Len(monthName) = 1 /\ monthName[1] \in DOMAIN UKRAINIAN_MONTHS
  THEN [threw |-> FALSE, month |-> UKRAINIAN_MONTHS[monthName[1]]]
  ELSE ParseError

\* days from 1 January to the first of the month, in the year 2025
DaysBeforeMonth == <<0, 31, 59, 90, 120, 151, 181, 212, 243, 273, 304, 334>>

\* new Date(year, month, day, hours, minutes, 0, 0).getTime(), counted from
\* 24 November 2025 00:00; the years of the model are not leap years
createTimestamp(year, month, day, hours, minutes) ==
  LET days == (year - 2025) * 365 + DaysBeforeMonth[month + 1] + day - 328
  IN  ((days * 24 + hours) * 60 + minutes) * 60 * 1000

\* a timestamp: a number of milliseconds, or NaN
NaN == [threw |-> FALSE, nan |-> TRUE, value |-> 0]
Timestamp(value) == [threw |-> FALSE, nan |-> FALSE, value |-> value]
DateError == [threw |-> TRUE, nan |-> FALSE, value |-> 0]

\* the timestamp of the text, NaN when a number of it is NaN, or the error
\* of the first step that throws
convertUkrainianDateToTimestamp(dateString) ==
  LET s == splitDateString(dateString)
  IN  IF s.threw THEN DateError
      ELSE LET d == parseDatePart(s.datePart)
           IN  IF d.threw THEN DateError
               ELSE LET t == parseTimePart(s.timePart)
                    IN  IF t.threw THEN DateError
                        ELSE LET m == getMonthNumber(d.monthName)
                             IN  IF m.threw THEN DateError
                                 ELSE IF d.day.nan \/ d.year.nan
                                         \/ t.hours.nan \/ t.minutes.nan
                                      THEN NaN
                                      ELSE Timestamp(
                                             createTimestamp(d.year.n, m.month,
                                               d.day.n, t.hours.n, t.minutes.n))

\* "D MONTH 2025, HH:MM" as the site prints it
DateText(day, monthName, hours, minutes) ==
  <<day, " ", monthName, " ", "2025", ",", " ", hours, ":", minutes>>

Date2016 == DateText("24", "LYSTOPADA", "20", "16")
Date1630 == DateText("24", "lystopada", "16", "30")
Date0930 == DateText("24", "LYSTOPADA", "9", "30")
DateTexts == { Date2016, Date1630, Date0930 }

\* texts that are not a date: no comma, an unknown month, a day and a
\* minute that are not numbers
NoCommaDate == <<"24", " ", "LYSTOPADA", " ", "2025", " ", "20", ":", "16">>
UnknownMonthDate == DateText("24", "NOVEMBER", "20", "16")
WordDayDate == DateText("xx", "LYSTOPADA", "20", "16")
WordMinuteDate == DateText("24", "LYSTOPADA", "20", "xx")
MalformedTexts ==
  { NoCommaDate, UnknownMonthDate, WordDayDate, WordMinuteDate }

----------------------------------------------------------------------------
(* Clocks *)

Clock2100 == createTimestamp(2025, 10, 24, 21, 0)
Clock0100 == createTimestamp(2025, 10, 25, 1, 0)      \* four hours later
Clocks == { Clock2100, Clock0100 }

\* created is a number: the caller keeps NaN away (NaN < x is false)
isArticleRecentEnough(created, currentTime) ==
  LET timeDiff == currentTime - created
  IN  timeDiff < THREE_HOURS_IN_MS

----------------------------------------------------------------------------
(* Pages of the site *)

\* One entry per href of the listing, in the order of the listing.
\* kind: "ok"       an absolute link whose article page renders completely
\*       "rss"      an absolute link that contains an EXCLUDE_LINKS substring
\*       "relative" an href that does not start with http:// or https://
\*       "gotoFail" page.goto rejects, or the page has no .date element
\*       "noBody"   the date is there, .author-article is missing
Pages ==
     [kind : {"ok"}, date : DateTexts \cup MalformedTexts, image : {TRUE}]
  \cup [kind : {"ok"}, date : {Date2016}, image : {FALSE}]
  \cup [kind : {"noBody", "rss", "gotoFail", "relative"}, date : {Date2016},
        image : {TRUE}]

Listings == UNION { [1..n -> Pages] : n \in 1..MaxLinks }

shouldExcludeLinkNever(page) == FALSE

shouldExcludeLink(page) == page.kind = "rss"

\* getMainNews: the elements of MAIN_NEWS_CLASS, each with the hrefs it
\* holds; the listing is cut into two elements after its first cut hrefs
getMainNews(pages, cut) ==
  << [k \in 1..cut |-> k], [k \in 1..(Len(pages) - cut) |-> cut + k] >>

\* the hrefs of all fragments in order, absolute ones only
RECURSIVE extractLinksFromHTML(_, _)
extractLinksFromHTML(pages, htmlContents) ==
  IF htmlContents = <<>> THEN <<>>
  ELSE SelectSeq(Head(htmlContents), LAMBDA l : pages[l].kind # "relative")
         \o extractLinksFromHTML(pages, Tail(htmlContents))

Article(link, page, created) ==
  [link |-> link, title |-> <<"T", link>>, created |-> created,
   image |-> page.image, id |-> 0]

\* the three results of processArticleLink; delayed: the call waited the
\* second of "setTimeout(resolve, 1000)" before it returned
Caught == [content |-> Null, shouldContinue |-> TRUE, delayed |-> FALSE]
Stop == [content |-> Null, shouldContinue |-> FALSE, delayed |-> FALSE]
Scraped(article) ==
  [content |-> article, shouldContinue |-> TRUE, delayed |-> TRUE]

\* The result of one processArticleLink call: content (or Null) and whether
\* the loop goes on.  page.goto is the first statement of every call.
processArticleLinkContinue(link, page, currentTime) ==
  IF page.kind = "gotoFail" THEN Caught
  ELSE LET created == convertUkrainianDateToTimestamp(page.date)
       IN  IF created.threw THEN Caught
           ELSE IF created.nan
                   \/ ~isArticleRecentEnough(created.value, currentTime)
                THEN Caught
                ELSE IF page.kind = "noBody" THEN Caught
                     ELSE Scraped(Article(link, page, created.value))

processArticleLinkAbort(link, page, currentTime) ==
  IF page.kind = "gotoFail" THEN Stop
  ELSE LET created == convertUkrainianDateToTimestamp(page.date)
       IN  IF created.threw THEN Stop
           ELSE IF created.nan
                   \/ ~isArticleRecentEnough(created.value, currentTime)
                THEN Stop
                ELSE IF page.kind = "noBody" THEN Stop
                     ELSE Scraped(Article(link, page, created.value))

processArticleLink(link, page, currentTime) ==
  IF page.kind = "gotoFail" THEN Caught
  ELSE LET created == convertUkrainianDateToTimestamp(page.date)
       IN  IF created.threw THEN Caught
           ELSE IF created.nan
                   \/ ~isArticleRecentEnough(created.value, currentTime)
                THEN Stop
                ELSE IF page.kind = "noBody" THEN Caught
                     ELSE Scraped(Article(link, page, created.value))

----------------------------------------------------------------------------
(* PuppeteerScraper *)

\* browser and page are "open" while the scraper holds the handle
\* (this.browser, this.page) and "closed" when the handle is null.

\* PuppeteerScraper.close: page.close() and browser.close() in one try; a
\* rejection of either is logged and ends close() there
close(s, pageCloseOk, browserCloseOk) ==
  IF s.page = "open" /\ ~pageCloseOk THEN s
  ELSE LET t == [s EXCEPT !.page = "closed"]
       IN  IF t.browser = "open" /\ ~browserCloseOk THEN t
           ELSE [t EXCEPT !.browser = "closed"]

\* the steps of initialize that may reject
InitSteps == { "launch", "newPage", "goto" }

\* PuppeteerScraper.initialize: failAt is the step that rejects, or "none";
\* on a rejection it calls close() and throws
initialize(s, failAt, pageCloseOk, browserCloseOk) ==
  LET launched == [s EXCEPT !.browser = "open"]
      paged == [launched EXCEPT !.page = "open"]
  IN  CASE failAt = "none" -> [paged EXCEPT !.pc = "mainNews"]
        [] failAt = "launch" ->
             [close(s, pageCloseOk, browserCloseOk)
                EXCEPT !.pc = "catch", !.setup = "failed"]
        [] failAt = "newPage" ->
             [close(launched, pageCloseOk, browserCloseOk)
                EXCEPT !.pc = "catch", !.setup = "failed"]
        [] failAt = "goto" ->
             [close(paged, pageCloseOk, browserCloseOk)
                EXCEPT !.pc = "catch", !.setup = "failed"]

----------------------------------------------------------------------------
(* FootballUAScraper.scrape, one step per awaited operation *)

ScraperIdle ==
  [pc |-> "idle", i |-> 0, links |-> <<>>, articles |-> <<>>,
   visited |-> <<>>, delays |-> <<>>, browser |-> "closed",
   page |-> "closed", setup |-> "pending"]

ConvIdle == [pc |-> "idle", text |-> <<>>, result |-> DateError]

AnalyzeIdle ==
  [pc |-> "idle", articles |-> <<>>, queryOk |-> TRUE, embed |-> "ok",
   result |-> NullResult, calls |-> 0, failed |-> FALSE]

\* no later stage of the callback has been called
StageIdle == [pc |-> "idle"]

CollectorUnused ==
  /\ proc = "boot"
  /\ registry = <<>>
  /\ timers = <<>>
  /\ tick = 0
  /\ fired = {}
  /\ cycles = {}
  /\ db = {}
  /\ log = {}

ScrapeInit ==
  /\ now \in Clocks
  /\ site \in Listings
  /\ sc = [ScraperIdle EXCEPT !.pc = "start"]
  /\ conv = ConvIdle
  /\ an = AnalyzeIdle
  /\ st = StageIdle
  /\ CollectorUnused

\* await this.scraper.initialize()
Initialize ==
  /\ sc.pc = "start"
  /\ \E failAt \in InitSteps \cup {"none"},
        pageCloseOk \in BOOLEAN, browserCloseOk \in BOOLEAN :
       sc' = initialize(sc, failAt, pageCloseOk, browserCloseOk)
  /\ UNCHANGED <<now, site, conv, an, st>>
  /\ UNCHANGED collectorVars

\* getMainNews (waitForClass, getElementsByClass), extractLinksFromHTML and
\* getPage, whose page is there once initialize has returned
GetMainNews ==
  /\ sc.pc = "mainNews"
  /\ \E ok \in BOOLEAN, cut \in 0..Len(site) :
       sc' = IF ok
             THEN [sc EXCEPT !.pc = "loop", !.i = 1, !.setup = "ok",
                     !.links = extractLinksFromHTML(site, getMainNews(site, cut))]
             ELSE [sc EXCEPT !.pc = "catch", !.setup = "failed"]
  /\ UNCHANGED <<now, site, conv, an, st>>
  /\ UNCHANGED collectorVars

\* one iteration of "for (const link of links)"
LoopStep ==
  /\ sc.pc = "loop"
  /\ sc.i <= Len(sc.links)
  /\ LET link == sc.links[sc.i]
         page == site[link]
     IN  IF shouldExcludeLink(page)
         THEN sc' = [sc EXCEPT !.i = @ + 1]
         ELSE LET result == processArticleLink(link, page, now)
                  pushed == IF result.content # Null
                            THEN Append(sc.articles, result.content)
                            ELSE sc.articles
              IN  sc' = [sc EXCEPT
                           !.visited = Append(@, link),
                           !.delays = Append(@, result.delayed),
                           !.articles = pushed,
                           !.i = IF result.shouldContinue THEN @ + 1 ELSE @,
                           !.pc = IF result.shouldContinue THEN "loop"
                                  ELSE "return"]
  /\ UNCHANGED <<now, site, conv, an, st>>
  /\ UNCHANGED collectorVars

LoopEnd ==
  /\ sc.pc = "loop"
  /\ sc.i > Len(sc.links)
  /\ sc' = [sc EXCEPT !.pc = "return"]
  /\ UNCHANGED <<now, site, conv, an, st>>
  /\ UNCHANGED collectorVars

\* the catch block swallows the error: scrape returns the articles
RethrowSwallowed ==
  /\ sc.pc = "catch"
  /\ \E pageCloseOk \in BOOLEAN, browserCloseOk \in BOOLEAN :
       sc' = [close(sc, pageCloseOk, browserCloseOk) EXCEPT !.pc = "done"]
  /\ UNCHANGED <<now, site, conv, an, st>>
  /\ UNCHANGED collectorVars

\* the catch block logs and rethrows, the finally block runs close()
Rethrow ==
  /\ sc.pc = "catch"
  /\ \E pageCloseOk \in BOOLEAN, browserCloseOk \in BOOLEAN :
       sc' = [close(sc, pageCloseOk, browserCloseOk) EXCEPT !.pc = "threw"]
  /\ UNCHANGED <<now, site, conv, an, st>>
  /\ UNCHANGED collectorVars

\* "return articles" followed by the finally block
Return ==
  /\ sc.pc = "return"
  /\ \E pageCloseOk \in BOOLEAN, browserCloseOk \in BOOLEAN :
       sc' = [close(sc, pageCloseOk, browserCloseOk) EXCEPT !.pc = "done"]
  /\ UNCHANGED <<now, site, conv, an, st>>
  /\ UNCHANGED collectorVars

ScrapeNext ==
  \/ Initialize
  \/ GetMainNews
  \/ LoopStep
  \/ LoopEnd
  \/ Rethrow
  \/ Return

ScrapeSpec == ScrapeInit /\ [][ScrapeNext]_vars

----------------------------------------------------------------------------
(* Properties of the scraper *)

\* the link at position l was navigated to and its article is older than
\* the staleness window of the code
StaleAt(l) ==
  /\ site[l].kind \in {"ok", "noBody"}
  /\ site[l].date \in DateTexts
  /\ ~isArticleRecentEnough(
        convertUkrainianDateToTimestamp(site[l].date).value, now)

FreshAt(l) ==
  /\ site[l].kind = "ok"
  /\ site[l].date \in DateTexts
  /\ isArticleRecentEnough(
       convertUkrainianDateToTimestamp(site[l].date).value, now)

Visited == { sc.visited[k] : k \in 1..Len(sc.visited) }
Returned == { sc.articles[k] : k \in 1..Len(sc.articles) }

\* C33: the navigation to a link is followed by the polite delay whenever
\* another navigation comes after it in the same scrape.
C33_DelayBetweenNavigations ==
  \A k \in 1..Len(sc.visited) :
    k < Len(sc.visited) => sc.delays[k]

\* C1: once a visited link turns out to be stale, no link later in
\* discovery order is navigated to, no article of a later link is returned,
\* and the stale article itself is not returned.
C1_HardStop ==
  \A l \in Visited :
    StaleAt(l) =>
      /\ \A v \in Visited : v <= l
      /\ \A a \in Returned : a.link < l

\* a finished scrape that met a stale article in front of a fresher one
C1_Witness ==
  /\ sc.pc = "done"
  /\ \E l \in Visited :
       /\ StaleAt(l)
       /\ \E m \in (l + 1)..Len(site) : FreshAt(m)
       /\ \E a \in Returned : a.link < l

\* C2: the staleness window is three hours: every returned article is less
\* than three hours old, and a scrape of articles dated 20:16 run at 01:00
\* of the next day (four hours after 21:00) returns the empty list.
C2_ThreeHourWindow ==
  /\ \A a \in Returned : now - a.created < DocumentedWindowMs
  /\ ( /\ sc.pc = "done"
       /\ now = Clock0100
       /\ \A l \in 1..Len(site) : site[l].date = Date2016 )
     => sc.articles = <<>>

\* the position of link l among the extracted links
PositionOf(l) == CHOOSE k \in 1..Len(sc.links) : sc.links[k] = l

\* navigation to link l, or the extraction of its body, throws
ThrowsAt(l) ==
  \/ site[l].kind = "gotoFail"
  \/ /\ site[l].kind = "noBody"
     /\ site[l].date \in DateTexts
     /\ isArticleRecentEnough(
          convertUkrainianDateToTimestamp(site[l].date).value, now)

\* processArticleLink answers shouldContinue = false at link l
EndsScanAt(l) == ~processArticleLink(l, site[l], now).shouldContinue

\* C12: a visited link whose navigation or extraction throws gives no
\* article and does not make scrape throw; the loop is past that link, and
\* a finished scan returned the article of every later fresh link that no
\* scan-ending link precedes.
C12_LinkFailureSkipsTheLink ==
  \A l \in Visited :
    ThrowsAt(l) =>
      /\ sc.pc \notin {"catch", "threw"}
      /\ \A a \in Returned : a.link # l
      /\ sc.i > PositionOf(l)
      /\ sc.pc = "done" =>
           \A m \in (l + 1)..Len(site) :
             ( /\ FreshAt(m)
               /\ \A j \in 1..m : site[j].kind # "rss" => ~EndsScanAt(j) )
             => \E a \in Returned : a.link = m

\* a finished scan returned the article of a link behind a failing one
C12_Witness ==
  /\ sc.pc = "done"
  /\ \E l \in Visited :
       /\ ThrowsAt(l)
       /\ \E a \in Returned : a.link > l

\* C13: scrape throws exactly when the setup failed, and then no link was
\* visited and no article collected; after a successful setup it never is
\* in its catch block, whatever the article pages do.
C13_ThrowsIffSetupFails ==
  /\ sc.pc = "threw" => sc.setup = "failed"
  /\ sc.pc = "done" => sc.setup = "ok"
  /\ sc.setup = "failed" =>
       /\ sc.pc \in {"catch", "threw"}
       /\ sc.visited = <<>>
       /\ sc.articles = <<>>
  /\ sc.setup = "ok" => sc.pc \in {"loop", "return", "done"}

\* scrape threw on a listing that has a fresh article
C13_Witness ==
  /\ sc.pc = "threw"
  /\ \E l \in 1..Len(site) : FreshAt(l)

\* C14: when scrape has returned or thrown, the scraper holds neither a
\* browser nor a page.
C14_BrowserReleased ==
  sc.pc \in {"done", "threw"} =>
    /\ sc.browser = "closed"
    /\ sc.page = "closed"

\* the hrefs of the listing that are absolute, and those of them that
\* contain an exclude substring
AbsoluteLinks == { l \in 1..Len(site) : site[l].kind # "relative" }
ExcludedLinks == { l \in 1..Len(site) : site[l].kind = "rss" }

\* the links the loop does not skip
Candidates == SelectSeq(sc.links, LAMBDA l : ~shouldExcludeLink(site[l]))

\* C15: of the N absolute links of the listing, M of them excluded, the
\* N - M others are the candidates, in the order of the listing; the links
\* visited are the first candidates in that order, and no excluded link is
\* navigated to.
C15_CandidateLinks ==
  sc.setup = "ok" =>
    /\ Len(Candidates) = Cardinality(AbsoluteLinks) - Cardinality(ExcludedLinks)
    /\ { Candidates[k] : k \in 1..Len(Candidates) }
         = AbsoluteLinks \ ExcludedLinks
    /\ \A j \in 1..Len(Candidates), k \in 1..Len(Candidates) :
         j < k => Candidates[j] < Candidates[k]
    /\ Len(sc.visited) <= Len(Candidates)
    /\ \A k \in 1..Len(sc.visited) : sc.visited[k] = Candidates[k]
    /\ \A v \in Visited : v \notin ExcludedLinks

\* a finished scan of a listing with a relative href and an excluded link
\* in front of a candidate visited every candidate
C15_Witness ==
  /\ sc.pc = "done"
  /\ Len(sc.visited) = Len(Candidates)
  /\ \E r \in 1..Len(site), x \in ExcludedLinks, v \in Visited :
       /\ site[r].kind = "relative"
       /\ r < v
       /\ x < v

\* C17: a visited link whose date text is malformed gives no article, the
\* loop is past that link and scrape does not throw.
C17_MalformedDateSkipsTheLink ==
  \A l \in Visited :
    (site[l].kind = "ok" /\ site[l].date \in MalformedTexts) =>
      /\ \A a \in Returned : a.link # l
      /\ sc.pc \notin {"catch", "threw"}
      /\ sc.i > PositionOf(l)

----------------------------------------------------------------------------
(* One call of convertUkrainianDateToTimestamp *)

\* The texts given to the conversion: four dates as the site prints them
\* and every text one edit away from one of them: a token deleted, a
\* separator or a word inserted, a token replaced.
BaseDates ==
  { DateText("24", "LYSTOPADA", "20", "16"),
    DateText("24", "lystopada", "20", "16"),
    DateText("9", "HRUDNIA", "16", "30"),
    DateText("9", "hrudnia", "16", "30") }

Junk == Separators \cup { "xx" }

Deleted(t) ==
  { SubSeq(t, 1, k - 1) \o SubSeq(t, k + 1, Len(t)) : k \in 1..Len(t) }
Inserted(t) ==
  { SubSeq(t, 1, k) \o <<j>> \o SubSeq(t, k + 1, Len(t)) :
      k \in 0..Len(t), j \in Junk }
Replaced(t) ==
  { [t EXCEPT ![k] = j] : k \in 1..Len(t), j \in Junk \cup { "NOVEMBER" } }

DateInputs ==
  BaseDates \cup DateTexts \cup MalformedTexts
    \cup UNION { Deleted(t) \cup Inserted(t) \cup Replaced(t) : t \in BaseDates }

DateInit ==
  /\ now = Clock2100
  /\ site = <<>>
  /\ sc = ScraperIdle
  /\ \E text \in DateInputs :
       conv = [pc |-> "start", text |-> text, result |-> DateError]
  /\ an = AnalyzeIdle
  /\ st = StageIdle
  /\ CollectorUnused

\* const created = this.convertUkrainianDateToTimestamp(dateString)
Convert ==
  /\ conv.pc = "start"
  /\ conv' = [conv EXCEPT !.pc = "done",
                !.result = convertUkrainianDateToTimestamp(conv.text)]
  /\ UNCHANGED <<now, site, sc, an, st>>
  /\ UNCHANGED collectorVars

DateNext == Convert

DateSpec == DateInit /\ [][DateNext]_vars

\* the number of tokens of the text that are the given token
Count(text, token) == Cardinality({ k \in 1..Len(text) : text[k] = token })

\* the dates of the model with their epoch milliseconds, worked out by
\* hand: 24 November 20:16 is 20 h 16 min after the origin, 9 December
\* 16:30 is 15 days 16 h 30 min after it
KnownDates ==
  { [day |-> "24", months |-> {"LYSTOPADA", "lystopada"}, hours |-> "20",
     minutes |-> "16", value |-> 72960000],
    [day |-> "9", months |-> {"HRUDNIA", "hrudnia"}, hours |-> "16",
     minutes |-> "30", value |-> 1355400000] }

\* the ways to write a known date: white space around the text and around
\* the comma does not matter
Spellings(d) ==
  { pre \o <<d.day, " ", m, " ", "2025">> \o mid
        \o <<d.hours, ":", d.minutes>> \o post :
      pre \in { <<>>, <<" ">> }, post \in { <<>>, <<" ">> },
      m \in d.months,
      mid \in { <<",">>, <<",", " ">>, <<" ", ",">>, <<" ", ",", " ">> } }

\* C16: a valid date text, its month in either letter case, converts to
\* the epoch milliseconds of that date; a text whose number of commas is
\* not 1, whose date part has not 3 fields between spaces or whose time
\* part has not 2 fields between colons raises an error.
C16_DateConversion ==
  conv.pc = "done" =>
    /\ \A d \in KnownDates :
         conv.text \in Spellings(d) => conv.result = Timestamp(d.value)
    /\ Count(conv.text, ",") # 1 => conv.result.threw
    /\ Count(conv.text, ",") = 1 =>
         LET k == CHOOSE j \in 1..Len(conv.text) : conv.text[j] = ","
             datePart == trim(SubSeq(conv.text, 1, k - 1))
             timePart == trim(SubSeq(conv.text, k + 1, Len(conv.text)))
         IN  /\ Count(datePart, " ") # 2 => conv.result.threw
             /\ Count(timePart, ":") # 1 => conv.result.threw

\* a date with its month in lower case and no space after the comma was
\* converted
C16_Witness ==
  /\ conv.pc = "done"
  /\ conv.text = <<"9", " ", "hrudnia", " ", "2025", ",", "16", ":", "30">>
  /\ conv.result = Timestamp(1355400000)

----------------------------------------------------------------------------
(* The whole of one scrape call, as the pipeline sees it *)

RECURSIVE scrapeLoop(_, _, _, _, _)
scrapeLoop(pages, links, i, articles, currentTime) ==
  IF i > Len(links) THEN articles
  ELSE IF shouldExcludeLink(pages[links[i]])
       THEN scrapeLoop(pages, links, i + 1, articles, currentTime)
       ELSE LET result ==
                  processArticleLink(links[i], pages[links[i]], currentTime)
                pushed == IF result.content # Null
                          THEN Append(articles, result.content)
                          ELSE articles
            IN  IF result.shouldContinue
                THEN scrapeLoop(pages, links, i + 1, pushed, currentTime)
                ELSE pushed

\* setupOk: initialize and getMainNews succeed
scrape(pages, setupOk, currentTime) ==
  IF setupOk
  THEN Items(scrapeLoop(pages,
               extractLinksFromHTML(pages, getMainNews(pages, 0)),
               1, <<>>, currentTime))
  ELSE Threw

\* ScrapperReaderStrategy.read: dispatch on the source key to the scraper
read(source, links, setupOk, currentTime) ==
  scrape(links, setupOk, currentTime)

\* ScrapperHandler.handle
handle(source, links, setupOk, currentTime) ==
  read(source, links, setupOk, currentTime)

\* CollectorModule.processResource
processResource(source, links, setupOk, currentTime) ==
  IF source.reader = "Scrapper"
  THEN handle(source, links, setupOk, currentTime)
  ELSE NullResult

----------------------------------------------------------------------------
(* One scrape call on a listing whose fragments may repeat an href *)

\* the pages two article URLs of the site can lead to
ListedPages == { p \in Pages : p.date \in {Date2016, Date0930} }
ListedSites == { <<p, q>> : p \in ListedPages, q \in ListedPages }

\* the hrefs of one MAIN_NEWS_CLASS element: URLs of the site, in the order of
\* the markup; a news card may link its article from its image and its title
Fragments(pages) == UNION { [1..n -> DOMAIN pages] : n \in 0..MaxLinks }

\* what getMainNews returns: the inner HTML of two elements
ListedContents(pages) ==
  { c \in Fragments(pages) \X Fragments(pages) :
      Len(c[1]) + Len(c[2]) <= MaxLinks }

ListingInit ==
  /\ now = Clock2100
  /\ site \in ListedSites
  /\ sc = ScraperIdle
  /\ conv = ConvIdle
  /\ an = AnalyzeIdle
  /\ \E htmlContents \in ListedContents(site) :
       st = [pc |-> "listed", htmlContents |-> htmlContents]
  /\ proc = "boot"
  /\ registry = <<>>
  /\ timers = <<>>
  /\ tick = 0
  /\ fired = {}
  /\ cycles = {}
  /\ db = {}
  /\ log = {}

\* const links = this.extractLinksFromHTML(mainNews), then the loop over links
ScrapeListing ==
  /\ st.pc = "listed"
  /\ LET links == extractLinksFromHTML(site, st.htmlContents)
     IN  st' = [pc |-> "scraped", htmlContents |-> st.htmlContents,
                links |-> links,
                articles |-> scrapeLoop(site, links, 1, <<>>, now)]
  /\ UNCHANGED <<now, site, sc, conv, an, proc, registry, timers, tick,
                 fired, cycles, db, log>>

ListingNext == ScrapeListing

ListingSpec == ListingInit /\ [][ListingNext]_vars

\* C34: no two articles of the list one scrape call returns share a link,
\* also when a fragment of the listing holds the same href more than once.
C34_NoTwoArticlesShareALink ==
  st.pc = "scraped" =>
    \A j, k \in 1..Len(st.articles) :
      j # k => st.articles[j].link # st.articles[k].link

----------------------------------------------------------------------------
(* Storage *)

ONE_DAY_IN_MS == 24 * 60 * 60 * 1000

\* rows that may be in the articles table when the process starts; story is
\* the number of the link whose article the row was written from
CandidateRows ==
  { [id |-> 1, story |-> 1, title |-> <<"R", 1>>, status |-> "Published",
     created |-> createTimestamp(2025, 10, 24, 19, 0), image |-> TRUE],
    [id |-> 2, story |-> 2, title |-> <<"R", 2>>, status |-> "Published",
     created |-> createTimestamp(2025, 10, 22, 19, 0), image |-> TRUE] }

\* the table when the process starts: empty, only a row older than a day,
\* or with a row of the last day too
Tables == { {}, { r \in CandidateRows : r.id = 2 }, CandidateRows }

\* getOneDayAgoFormatted and GET_LAST_DAY_PUBLISHED_ARTICLES_QUERY
getLastDayPublishedArticles(rows, queryOk, currentTime) ==
  LET found == { r \in rows : /\ r.status = "Published"
                              /\ r.created >= currentTime - ONE_DAY_IN_MS }
  IN  IF ~queryOk \/ found = {} THEN [null |-> TRUE, titles |-> {}]
      ELSE [null |-> FALSE, titles |-> { r.title : r \in found }]

----------------------------------------------------------------------------
(* Deduplication *)

\* A title is <<kind, story>>: kind "T" as scraped, "R" as rewritten,
\* "blank" for '' or white space and "null" for a NULL title column.
BlankTitle == <<"blank", 0>>
NullTitle == <<"null", 0>>
notBlank(title) == title[1] \notin {"blank", "null"}

\* The vector the embedding model gives for a title depends on the story:
\*   1: A    2: B    3: A2, at cosine 3/4 of A and 1/2 of B
\*   4: the zero vector    5: near A2, far from A and B
EMBEDDING_DIM == 5
embedding(title) ==
  CASE title[2] = 1 -> <<1, 0, 0, 0, 0>>
    [] title[2] = 2 -> <<0, 1, 0, 0, 0>>
    [] title[2] = 3 -> <<3, 2, 1, 1, 1>>
    [] title[2] = 5 -> <<2, 2, 1, 1, 1>>
    [] OTHER -> <<0, 0, 0, 0, 0>>

RECURSIVE dotProduct(_, _, _)
dotProduct(vecA, vecB, i) ==
  IF i > Len(vecA) THEN 0
  ELSE vecA[i] * vecB[i] + dotProduct(vecA, vecB, i + 1)

\* A similarity is kept exactly, as its sign and its square num / den:
\* dotProduct / (sqrt(magnitudeA) * sqrt(magnitudeB)).  The rounding of the
\* floating point division is not modelled.
Zero == [threw |-> FALSE, sign |-> 0, num |-> 0, den |-> 1]

\* throw new Error('Vectors must have the same length')
LengthError == [threw |-> TRUE, sign |-> 0, num |-> 0, den |-> 1]

cosineSimilarity(vecA, vecB) ==
  IF Len(vecA) # Len(vecB) THEN LengthError
  ELSE LET dot == dotProduct(vecA, vecB, 1)
           magnitudeA == dotProduct(vecA, vecA, 1)
           magnitudeB == dotProduct(vecB, vecB, 1)
       IN  IF magnitudeA = 0 \/ magnitudeB = 0 \/ dot = 0 THEN Zero
           ELSE [threw |-> FALSE, sign |-> IF dot > 0 THEN 1 ELSE -1,
                 num |-> dot * dot, den |-> magnitudeA * magnitudeB]

\* x <= y for two similarities
atMost(x, y) ==
  IF x.sign # y.sign THEN x.sign < y.sign
  ELSE IF x.sign = 1 THEN x.num * y.den <= y.num * x.den
       ELSE IF x.sign = -1 THEN x.num * y.den >= y.num * x.den
            ELSE TRUE

\* Math.max over a non-empty set of similarities
max(sims) == CHOOSE x \in sims : \A y \in sims : atMost(y, x)

\* 0.75, as the square 9/16
SIMILARITY_THRESHOLD == [threw |-> FALSE, sign |-> 1, num |-> 9, den |-> 16]

atLeastThresholdStrict(sim) == ~atMost(sim, SIMILARITY_THRESHOLD)

\* maxSimilarity >= SIMILARITY_THRESHOLD
atLeastThreshold(sim) == atMost(SIMILARITY_THRESHOLD, sim)

\* what the two createEmbedding requests of one comparison do: both
\* answer, one of them fails, or the response for the existing titles
\* carries vectors of another length than the response for the new ones
EmbedOutcomes == { "ok", "newFails", "existingFails", "existingShort" }

SHORT_DIM == 3
existingEmbeddings(title, embed) ==
  IF embed = "existingShort" THEN SubSeq(embedding(title), 1, SHORT_DIM)
  ELSE embedding(title)

\* Math.max(...existingEmbeddings.map(cosineSimilarity)): the exception of
\* one comparison leaves the whole expression
maxSimilarity(title, existingTitles, embed) ==
  LET sims == { cosineSimilarity(embedding(title),
                                 existingEmbeddings(e, embed)) :
                  e \in existingTitles }
  IN  IF \E x \in sims : x.threw THEN LengthError ELSE max(sims)

isSimilar(title, existingTitles, embed) ==
  atLeastThreshold(maxSimilarity(title, existingTitles, embed))

\* an exception inside the try block of areTitlesSimilar
comparisonThrows(validNewTitles, validExistingTitles, embed) ==
  \E k \in 1..Len(validNewTitles) :
    maxSimilarity(validNewTitles[k], validExistingTitles, embed).threw

NoVerdicts(calls, failed) ==
  [null |-> TRUE, verdicts |-> <<>>, calls |-> calls, failed |-> failed]

\* the early return on blank-only lists is missing
areTitlesSimilarEager(newTitles, existingTitles, embed) ==
  LET validNewTitles == SelectSeq(newTitles, notBlank)
      validExistingTitles == { e \in existingTitles : notBlank(e) }
  IN  IF Len(newTitles) = 0 \/ existingTitles = {} THEN NoVerdicts(0, FALSE)
      ELSE IF embed \in {"newFails", "existingFails"}
                \/ validNewTitles = <<>> \/ validExistingTitles = {}
           THEN NoVerdicts(2, TRUE)
           ELSE IF comparisonThrows(validNewTitles, validExistingTitles, embed)
                THEN NoVerdicts(2, FALSE)
                ELSE [null |-> FALSE,
                      verdicts |-> [k \in 1..Len(validNewTitles) |->
                                      isSimilar(validNewTitles[k],
                                                validExistingTitles, embed)],
                      calls |-> 2, failed |-> FALSE]

\* AnalyzeAiService.areTitlesSimilar: one verdict per non-blank new title,
\* or null when a list is empty, a request fails or a comparison throws
\* (the catch of the try block returns null); calls is the number of
\* requests sent to the embedding provider, failed whether one was rejected
areTitlesSimilar(newTitles, existingTitles, embed) ==
  LET validNewTitles == SelectSeq(newTitles, notBlank)
      validExistingTitles == { e \in existingTitles : notBlank(e) }
  IN  IF Len(newTitles) = 0 \/ existingTitles = {} THEN NoVerdicts(0, FALSE)
      ELSE IF validNewTitles = <<>> \/ validExistingTitles = {}
           THEN NoVerdicts(0, FALSE)
           ELSE IF embed \in {"newFails", "existingFails"}
                THEN NoVerdicts(2, TRUE)
                ELSE IF comparisonThrows(validNewTitles, validExistingTitles,
                                         embed)
                     THEN NoVerdicts(2, FALSE)
                     ELSE [null |-> FALSE,
                           verdicts |-> [k \in 1..Len(validNewTitles) |->
                                           isSimilar(validNewTitles[k],
                                                     validExistingTitles,
                                                     embed)],
                           calls |-> 2, failed |-> FALSE]

RECURSIVE filterByIndex(_, _, _)
filterByIndex(articles, keep, k) ==
  IF k > Len(articles) THEN <<>>
  ELSE IF keep[k] THEN <<articles[k]>> \o filterByIndex(articles, keep, k + 1)
       ELSE filterByIndex(articles, keep, k + 1)

\* what startAnalyze gives: its result, the number of embedding requests
\* and whether one of them failed
Analyzed(result, similarityResults) ==
  [result |-> result, calls |-> similarityResults.calls,
   failed |-> similarityResults.failed]

\* the batch is lost whenever previous titles are there to compare with
startAnalyzeLossy(articles, rows, queryOk, embed, currentTime) ==
  LET lastArticles == getLastDayPublishedArticles(rows, queryOk, currentTime)
  IN  IF lastArticles.null
      THEN Analyzed(Items(articles), NoVerdicts(0, FALSE))
      ELSE LET newTitles == [k \in 1..Len(articles) |-> articles[k].title]
               existingTitles == { t \in lastArticles.titles : t # NullTitle }
               similarityResults ==
                 areTitlesSimilar(newTitles, existingTitles, embed)
           IN  Analyzed(NullResult, similarityResults)

\* AnalyzerModule.startAnalyze; similarityResults[index] of an index past
\* the end of the verdicts is undefined, which keeps the article
startAnalyze(articles, rows, queryOk, embed, currentTime) ==
  LET lastArticles == getLastDayPublishedArticles(rows, queryOk, currentTime)
  IN  IF lastArticles.null
      THEN Analyzed(Items(articles), NoVerdicts(0, FALSE))
      ELSE LET newTitles == [k \in 1..Len(articles) |-> articles[k].title]
               existingTitles == { t \in lastArticles.titles : t # NullTitle }
               similarityResults ==
                 areTitlesSimilar(newTitles, existingTitles, embed)
           IN  IF similarityResults.null
               THEN Analyzed(Items(articles), similarityResults)
               ELSE LET filteredArticles ==
                          filterByIndex(articles,
                            [k \in 1..Len(articles) |->
                               ~( /\ k <= Len(similarityResults.verdicts)
                                  /\ similarityResults.verdicts[k] )], 1)
                    IN  Analyzed(IF Len(filteredArticles) > 0
                                 THEN Items(filteredArticles) ELSE NullResult,
                                 similarityResults)

----------------------------------------------------------------------------
(* One call of startAnalyze *)

\* "if (!x) return": an array, even an empty one, is truthy
truthy(r) == ~r.null

MaxTitles == 2     \* new articles given to one deduplication call

NewTitles ==
  { <<"T", 1>>, <<"T", 2>>, <<"T", 3>>, <<"T", 4>>, <<"T", 5>>, BlankTitle }

NewLists ==
  UNION { { [k \in 1..n |->
               [link |-> k, title |-> titles[k],
                created |-> createTimestamp(2025, 10, 24, 20, 16),
                image |-> TRUE, id |-> 0]] :
            titles \in [1..n -> NewTitles] } : n \in 0..MaxTitles }

\* rows for the table of a deduplication call: two stories of the last day,
\* a blank and a NULL title of the last day, and a story two days old
DedupRow(id, story, title, day) ==
  [id |-> id, story |-> story, title |-> title, status |-> "Published",
   created |-> createTimestamp(2025, 10, day, 19, 0), image |-> TRUE]

RowA == DedupRow(1, 1, <<"R", 1>>, 24)
RowOld == DedupRow(2, 2, <<"R", 2>>, 22)
RowA2 == DedupRow(3, 3, <<"R", 3>>, 24)
RowBlank == DedupRow(4, 0, BlankTitle, 24)
RowNull == DedupRow(5, 0, NullTitle, 24)

DedupTables ==
  { {}, {RowOld}, {RowA}, {RowA2}, {RowA, RowA2}, {RowA2, RowOld},
    {RowBlank}, {RowNull}, {RowBlank, RowNull}, {RowA2, RowBlank, RowNull} }

DedupInit ==
  /\ now = Clock2100
  /\ site = <<>>
  /\ sc = ScraperIdle
  /\ conv = ConvIdle
  /\ \E articles \in NewLists, queryOk \in BOOLEAN, embed \in EmbedOutcomes :
       an = [AnalyzeIdle EXCEPT !.pc = "start", !.articles = articles,
                                !.queryOk = queryOk, !.embed = embed]
  /\ st = StageIdle
  /\ proc = "boot"
  /\ registry = <<>>
  /\ timers = <<>>
  /\ tick = 0
  /\ fired = {}
  /\ cycles = {}
  /\ db \in DedupTables
  /\ log = {}

\* await this.analyzerModule.startAnalyze(articles)
Analyze ==
  /\ an.pc = "start"
  /\ LET a == startAnalyze(an.articles, db, an.queryOk, an.embed, now)
     IN  an' = [an EXCEPT !.pc = "done", !.result = a.result,
                          !.calls = a.calls, !.failed = a.failed]
  /\ UNCHANGED <<now, site, sc, conv, st>>
  /\ UNCHANGED collectorVars

\* "if (!analyzedArticles) return", else on to formatData
AfterAnalyze ==
  /\ an.pc = "done"
  /\ an' = [an EXCEPT !.pc = IF truthy(an.result) THEN "Rewriting" ELSE "Idle"]
  /\ UNCHANGED <<now, site, sc, conv, st>>
  /\ UNCHANGED collectorVars

DedupNext ==
  \/ Analyze
  \/ AfterAnalyze

DedupSpec == DedupInit /\ [][DedupNext]_vars

\* the pairs of stories whose vectors are at cosine 0.75 or more, worked
\* out by hand: A.A2 = 3/4, A2.(story 5) = 13/sqrt(176), equal stories 1
Near ==
  { <<1, 1>>, <<2, 2>>, <<3, 3>>, <<5, 5>>,
    <<1, 3>>, <<3, 1>>, <<3, 5>>, <<5, 3>> }

\* the non-blank titles storage gives for the last day
ReadableTitles ==
  IF an.queryOk
  THEN { r.title : r \in { q \in db : q.id # 2 /\ notBlank(q.title) } }
  ELSE {}

NonBlankNew == { k \in 1..Len(an.articles) : notBlank(an.articles[k].title) }

\* C18: with every new title non-blank and both embedding requests
\* answered, the stage returns, in order, exactly the articles whose title
\* is at cosine less than 0.75 of every existing title.
C18_DropsAtThreshold ==
  ( /\ an.pc = "done"
    /\ an.articles # <<>>
    /\ NonBlankNew = 1..Len(an.articles)
    /\ ReadableTitles # {}
    /\ an.embed = "ok" )
  => /\ ~an.result.threw
     /\ an.result.items =
          SelectSeq(an.articles,
            LAMBDA a : \A e \in ReadableTitles : <<a.title[2], e[2]>> \notin Near)

\* new titles [A, B] against the existing title A2 gave exactly [B]
C18_Witness ==
  /\ an.pc = "done"
  /\ an.embed = "ok"
  /\ db = {RowA2}
  /\ Len(an.articles) = 2
  /\ an.articles[1].title = <<"T", 1>>
  /\ an.articles[2].title = <<"T", 2>>
  /\ an.result = Items(<<an.articles[2]>>)

\* C19: when no new title or no existing title is left after the blank
\* ones are removed, or none can be read from storage, the stage returns
\* the list it was given, without an error and without a request to the
\* embedding provider.
C19_SkipsOnInsufficientData ==
  ( /\ an.pc = "done"
    /\ (NonBlankNew = {} \/ ReadableTitles = {}) )
  => /\ an.result = Items(an.articles)
     /\ an.calls = 0

\* two articles against a table whose titles of the last day are blank or
\* NULL came back as they were
C19_Witness ==
  /\ an.pc = "done"
  /\ an.queryOk
  /\ db = {RowBlank, RowNull}
  /\ Len(an.articles) = 2
  /\ NonBlankNew = {1, 2}
  /\ an.result = Items(an.articles)
  /\ an.calls = 0

\* C20: when an embedding request failed, the stage returned the very
\* list it was given and the callback does not return before the rewrite
\* stage.
C20_EmbeddingFailurePassesAll ==
  an.failed =>
    /\ an.result = Items(an.articles)
    /\ an.pc \in {"done", "Rewriting"}

\* the request for the existing titles failed and the callback went on to
\* the rewrite stage with both articles
C20_Witness ==
  /\ an.pc = "Rewriting"
  /\ an.failed
  /\ an.embed = "existingFails"
  /\ Len(an.articles) = 2

\* the two lists of vectors of a comparison that was made have vectors of
\* different lengths
LengthMismatch ==
  /\ an.embed = "existingShort"
  /\ NonBlankNew # {}
  /\ ReadableTitles # {}

\* C21: when the vectors of the new titles and of the existing titles have
\* different lengths, startAnalyze ends with the length error instead of
\* returning a result.
C21_LengthMismatchFailsLoudly ==
  (an.pc = "done" /\ LengthMismatch) => an.result.threw

\* C38: when both requests to the embedding provider were answered, an
\* article with a blank title is kept, and an article with a non-blank
\* title is dropped exactly when its own title is at cosine 0.75 or more
\* of an existing title.
C38_VerdictOfOwnTitle ==
  ( /\ an.pc = "done"
    /\ an.embed = "ok"
    /\ NonBlankNew # {}
    /\ ReadableTitles # {} )
  => \A k \in 1..Len(an.articles) :
       LET kept == \E j \in 1..Len(an.result.items) :
                     an.result.items[j] = an.articles[k]
           near == \E e \in ReadableTitles :
                     <<an.articles[k].title[2], e[2]>> \in Near
       IN  IF k \in NonBlankNew THEN kept <=> ~near ELSE kept

----------------------------------------------------------------------------
(* Rewriting *)

\* What the chat request for one article brings:
\*   "rewritten"   JSON with title, content and isRelevant true
\*   "irrelevant"  JSON with title, content and isRelevant false
\*   "chatThrows"  openAIProvider.chat rejects
\*   "empty"       no content in the first choice
\*   "unparsable"  content that JSON.parse rejects
\*   "incomplete"  JSON without title or content, or isRelevant not boolean
Replies ==
  { "rewritten", "irrelevant", "chatThrows", "empty", "unparsable",
    "incomplete" }

\* one reply of each outcome for the cycles of the pipeline: rewritten,
\* judged irrelevant, failed
PipelineReplies == { "rewritten", "irrelevant", "unparsable" }

\* the replies the claims call a failed rewrite
FailedReplies == { "chatThrows", "empty", "unparsable", "incomplete" }

\* FormatAiService.parseAIResponse on a non-empty content
parseAIResponse(reply) ==
  CASE reply = "rewritten" -> [null |-> FALSE, isRelevant |-> TRUE]
    [] reply = "irrelevant" -> [null |-> FALSE, isRelevant |-> FALSE]
    [] OTHER -> [null |-> TRUE, isRelevant |-> FALSE]

\* the relevance flag of the reply is not looked at
formatSingleArticleKeepAll(article, reply) ==
  IF reply \in {"chatThrows", "empty"} \/ parseAIResponse(reply).null
  THEN Null
  ELSE [title |-> <<"R", article.link>>, link |-> article.link,
        created |-> article.created, image |-> article.image, id |-> 0]

\* the image of the article is not carried over
formatSingleArticleBare(article, reply) ==
  IF reply # "rewritten" THEN Null
  ELSE [title |-> <<"R", article.link>>, link |-> article.link,
        created |-> article.created, image |-> FALSE, id |-> 0]

\* FormatAiService.formatSingleArticle: the rewritten article, or null when
\* the request throws (caught here), the reply is empty or unparsable, or
\* it says the article is irrelevant
formatSingleArticle(article, reply) ==
  IF reply = "chatThrows" THEN Null
  ELSE IF reply = "empty" THEN Null
  ELSE LET formatted == parseAIResponse(reply)
       IN  IF formatted.null THEN Null
           ELSE IF ~formatted.isRelevant THEN Null
           ELSE [title |-> <<"R", article.link>>, link |-> article.link,
                 created |-> article.created, image |-> article.image,
                 id |-> 0]

\* every rewritten article is put in front of the ones already there
RECURSIVE formatArticlesUnshift(_, _, _)
formatArticlesUnshift(articles, replies, i) ==
  IF i > Len(articles) THEN <<>>
  ELSE LET formatted == formatSingleArticle(articles[i], replies[i])
       IN  formatArticlesUnshift(articles, replies, i + 1)
             \o (IF formatted # Null THEN <<formatted>> ELSE <<>>)

\* FormatAiService.formatArticles from article i on: formatSingleArticle
\* never throws, so the catch that pushes the original article is not taken
RECURSIVE formatArticles(_, _, _)
formatArticles(articles, replies, i) ==
  IF i > Len(articles) THEN <<>>
  ELSE LET formatted == formatSingleArticle(articles[i], replies[i])
       IN  (IF formatted # Null THEN <<formatted>> ELSE <<>>)
             \o formatArticles(articles, replies, i + 1)

\* FormatterModule.formatData
formatData(articles, replies) == Items(formatArticles(articles, replies, 1))

----------------------------------------------------------------------------
(* startAnalyze, then formatData on what it returned *)

FormatTables == { {}, {RowA}, {RowA2} }

FormatInit ==
  /\ now = Clock2100
  /\ site = <<>>
  /\ sc = ScraperIdle
  /\ conv = ConvIdle
  /\ \E articles \in NewLists :
       an = [AnalyzeIdle EXCEPT !.pc = "start", !.articles = articles]
  /\ st = StageIdle
  /\ proc = "boot"
  /\ registry = <<>>
  /\ timers = <<>>
  /\ tick = 0
  /\ fired = {}
  /\ cycles = {}
  /\ db \in FormatTables
  /\ log = {}

\* await this.formatterModule.formatData(analyzedArticles)
Format ==
  /\ an.pc = "Rewriting"
  /\ st.pc = "idle"
  /\ \E replies \in [1..Len(an.result.items) -> Replies] :
       st' = [pc |-> "formatted", articles |-> an.result.items,
              replies |-> replies,
              result |-> formatData(an.result.items, replies)]
  /\ UNCHANGED <<now, site, sc, conv, an>>
  /\ UNCHANGED collectorVars

FormatNext ==
  \/ Analyze
  \/ AfterAnalyze
  \/ Format

FormatSpec == FormatInit /\ [][FormatNext]_vars

\* the links of a list of articles; an article keeps its link through
\* every stage
linksOf(list) == [k \in 1..Len(list) |-> list[k].link]

\* out is obtained from inp by leaving elements out
RECURSIVE isSubList(_, _)
isSubList(out, inp) ==
  IF out = <<>> THEN TRUE
  ELSE IF inp = <<>> THEN FALSE
  ELSE IF Head(out) = Head(inp) THEN isSubList(Tail(out), Tail(inp))
  ELSE isSubList(out, Tail(inp))

\* C22: an article whose reply sets relevance to false is not in the output
\* of the rewrite stage, neither rewritten nor as it was.
C22_IrrelevantIsAbsent ==
  st.pc = "formatted" =>
    \A k \in 1..Len(st.articles) :
      st.replies[k] = "irrelevant" =>
        \A j \in 1..Len(st.result.items) :
          st.result.items[j].link # st.articles[k].link

\* of two articles the first was judged irrelevant and the second
\* rewritten: only the second is in the output
C22_Witness ==
  /\ st.pc = "formatted"
  /\ Len(st.articles) = 2
  /\ st.replies = <<"irrelevant", "rewritten">>
  /\ linksOf(st.result.items) = <<st.articles[2].link>>

\* C23: an article whose rewrite failed is in the output of the rewrite
\* stage with its original title and body.
C23_FailedRewriteKeepsOriginal ==
  st.pc = "formatted" =>
    \A k \in 1..Len(st.articles) :
      st.replies[k] \in FailedReplies =>
        \E j \in 1..Len(st.result.items) :
          st.result.items[j] = st.articles[k]

\* C24: what the deduplication stage returns is an order-preserving
\* sub-list of its input, and so is what the rewrite stage returns, an
\* article being known by its link.
C24_OrderPreservingSubLists ==
  /\ an.pc # "start" => isSubList(an.result.items, an.articles)
  /\ st.pc = "formatted" =>
       isSubList(linksOf(st.result.items), linksOf(st.articles))

\* two articles came through both stages, in the order they were given
C24_Witness ==
  /\ st.pc = "formatted"
  /\ Len(an.articles) = 2
  /\ an.result.items = an.articles
  /\ Len(st.result.items) = 2
  /\ linksOf(st.result.items) = linksOf(an.articles)

\* C36: every article the reply rewrote is in the output with a new title
\* and with the link, the created timestamp and the image it came in with.
C36_RewriteKeepsLinkCreatedImage ==
  st.pc = "formatted" =>
    \A k \in 1..Len(st.articles) :
      st.replies[k] = "rewritten" =>
        \E j \in 1..Len(st.result.items) :
          LET out == st.result.items[j]
          IN  /\ out.link = st.articles[k].link
              /\ out.created = st.articles[k].created
              /\ out.image = st.articles[k].image
              /\ out.title = <<"R", st.articles[k].link>>
              /\ out.title # st.articles[k].title

\* both articles of a batch were rewritten
C36_Witness ==
  /\ st.pc = "formatted"
  /\ st.replies = <<"rewritten", "rewritten">>
  /\ Len(st.result.items) = 2
  /\ \A k \in 1..2 : /\ st.result.items[k].image
                      /\ st.result.items[k].title[1] = "R"
                      /\ st.articles[k].title[1] # "R"

----------------------------------------------------------------------------
(* Saving *)

\* result.data.insertId of an INSERT into rows: the AUTO_INCREMENT id
insertId(rows) ==
  IF rows = {} THEN 1
  ELSE 1 + (CHOOSE i \in { r.id : r \in rows } : \A r \in rows : r.id <= i)

\* INSERT_ARTICLE_QUERY with the values of article
insertArticle(rows, article) ==
  rows \cup { [id |-> insertId(rows), story |-> article.link,
               title |-> article.title, status |-> "Published",
               created |-> article.created, image |-> article.image] }

\* the first failed insert ends the loop
RECURSIVE saveLoopAbort(_, _, _, _)
saveLoopAbort(articles, inserts, rows, k) ==
  IF k > Len(articles) \/ ~inserts[k]
  THEN [savedArticles |-> <<>>, rows |-> rows]
  ELSE LET rest == saveLoopAbort(articles, inserts,
                                 insertArticle(rows, articles[k]), k + 1)
       IN  [savedArticles |->
              <<[articles[k] EXCEPT !.id = insertId(rows)]>>
                \o rest.savedArticles,
            rows |-> rest.rows]

\* the loop of saveArticles from article k on; inserts[k] is whether the
\* INSERT of article k executes
RECURSIVE saveLoop(_, _, _, _)
saveLoop(articles, inserts, rows, k) ==
  IF k > Len(articles) THEN [savedArticles |-> <<>>, rows |-> rows]
  ELSE IF inserts[k]
       THEN LET rest == saveLoop(articles, inserts,
                                 insertArticle(rows, articles[k]), k + 1)
            IN  [savedArticles |->
                   <<[articles[k] EXCEPT !.id = insertId(rows)]>>
                     \o rest.savedArticles,
                 rows |-> rest.rows]
       ELSE saveLoop(articles, inserts, rows, k + 1)

\* ArticlesRepository.saveArticles: the result and the rows afterwards
saveArticles(articles, inserts, rows) ==
  IF Len(articles) = 0 THEN [result |-> NullResult, rows |-> rows]
  ELSE LET saved == saveLoop(articles, inserts, rows, 1)
       IN  [result |-> IF Len(saved.savedArticles) > 0
                       THEN Items(saved.savedArticles) ELSE NullResult,
            rows |-> saved.rows]

----------------------------------------------------------------------------
(* One call of saveArticles *)

SaveTables == { {}, {RowA}, {RowA, RowA2} }

SaveInit ==
  /\ now = Clock2100
  /\ site = <<>>
  /\ sc = ScraperIdle
  /\ conv = ConvIdle
  /\ an = AnalyzeIdle
  /\ \E articles \in NewLists : st = [pc |-> "start", articles |-> articles]
  /\ proc = "boot"
  /\ registry = <<>>
  /\ timers = <<>>
  /\ tick = 0
  /\ fired = {}
  /\ cycles = {}
  /\ db \in SaveTables
  /\ log = {}

\* await articlesRepository.saveArticles(articles)
Save ==
  /\ st.pc = "start"
  /\ \E inserts \in [1..Len(st.articles) -> BOOLEAN] :
       LET s == saveArticles(st.articles, inserts, db)
       IN  /\ st' = [pc |-> "saved", articles |-> st.articles,
                     inserts |-> inserts, rowsBefore |-> db,
                     result |-> s.result]
           /\ db' = s.rows
  /\ UNCHANGED <<now, site, sc, conv, an>>
  /\ UNCHANGED <<proc, registry, timers, tick, fired, cycles, log>>

SaveNext == Save

SaveSpec == SaveInit /\ [][SaveNext]_vars

\* the articles of the batch whose INSERT succeeded, in order
InsertOk == { k \in 1..Len(st.articles) : st.inserts[k] }

\* C28: saveArticles returns, in order, exactly the articles whose insert
\* succeeded, each as it was given but with the identifier of the row that
\* its insert added; it returns null exactly when no insert succeeded, and
\* a failed insert adds no row.
C28_IdentifierOnlyAfterInsert ==
  st.pc = "saved" =>
    /\ linksOf(st.result.items) =
         linksOf(filterByIndex(st.articles,
                   [k \in 1..Len(st.articles) |-> k \in InsertOk], 1))
    /\ \A j \in 1..Len(st.result.items) :
         LET a == st.result.items[j]
         IN  /\ a.id # 0
             /\ [a EXCEPT !.id = 0] = st.articles[a.link]
             /\ \E r \in db \ st.rowsBefore :
                  r.id = a.id /\ r.story = a.link /\ r.title = a.title
             /\ \A i \in 1..Len(st.result.items) :
                  i # j => st.result.items[i].id # a.id
    /\ Cardinality(db \ st.rowsBefore) = Cardinality(InsertOk)
    /\ st.result.null <=> InsertOk = {}

\* the insert of the first article failed and that of the second
\* succeeded: only the second came back, with the id of its new row
C28_Witness ==
  /\ st.pc = "saved"
  /\ st.inserts = <<FALSE, TRUE>>
  /\ db # st.rowsBefore
  /\ Len(st.result.items) = 1
  /\ st.result.items[1].link = 2
  /\ st.result.items[1].id = insertId(st.rowsBefore)

----------------------------------------------------------------------------
(* Image reconciliation *)

\* ArticlesRepository.updateArticleImage: whether a row was updated, and
\* the rows afterwards; queryOk is whether the UPDATE statement executes
updateArticleImage(rows, articleId, queryOk) ==
  IF queryOk /\ \E r \in rows : r.id = articleId
  THEN [updated |-> TRUE,
        rows |-> { IF r.id = articleId THEN [r EXCEPT !.image = TRUE] ELSE r :
                     r \in rows }]
  ELSE [updated |-> FALSE, rows |-> rows]

\* getArticlesByIds: the rows of the ids as articles, ORDER BY created DESC
RECURSIVE getArticlesByIds(_, _)
getArticlesByIds(rows, ids) ==
  LET found == { r \in rows : r.id \in ids }
  IN  IF found = {} THEN <<>>
      ELSE LET first == CHOOSE r \in found :
                          \A q \in found : /\ q.created <= r.created
                                           /\ (q.created = r.created => q.id >= r.id)
           IN  << [link |-> first.story, title |-> first.title,
                   created |-> first.created, image |-> first.image,
                   id |-> first.id] >>
                 \o getArticlesByIds(rows, ids \ {first.id})

\* what the request to the image endpoint brings: a success status, another
\* status, or no response at all
ApiOutcomes == { "ok", "notOk", "rejects" }

responseOkAlways(api) == api # "rejects"

\* response.ok
responseOk(api) == api = "ok"

\* an item of result.results: its success flag and whether item.data holds
\* a non-empty newImage
ResultItems == [success : BOOLEAN, newImage : BOOLEAN]

qualifiesOnSuccess(item) == item.success

\* item.success && item.data && item.data.newImage
qualifies(item) == item.success /\ item.newImage

articlesWithImagesById(articles) ==
  SelectSeq(articles, LAMBDA article : article.id # 0)

\* articles.filter((article) => article.id && article.image)
articlesWithImages(articles) ==
  SelectSeq(articles, LAMBDA article : article.id # 0 /\ article.image)

\* the ids sent to the endpoint; item k of the response is about id k
imageUpdateData(articles) ==
  LET with == articlesWithImages(articles)
  IN  [k \in 1..Len(with) |-> with[k].id]

\* the loop over result.results from item k on: the items an UPDATE was
\* issued for, the ids whose row was updated, and the rows afterwards
RECURSIVE processResults(_, _, _, _, _)
processResults(items, ids, rows, writeOk, k) ==
  IF k > Len(items)
  THEN [issued |-> <<>>, updatedArticleIds |-> <<>>, rows |-> rows]
  ELSE IF qualifies(items[k])
       THEN LET u == updateArticleImage(rows, ids[k], writeOk[k])
                rest == processResults(items, ids, u.rows, writeOk, k + 1)
            IN  [issued |-> <<k>> \o rest.issued,
                 updatedArticleIds |->
                   (IF u.updated THEN <<ids[k]>> ELSE <<>>)
                     \o rest.updatedArticleIds,
                 rows |-> rest.rows]
       ELSE processResults(items, ids, rows, writeOk, k + 1)

\* only what was read back from storage is returned, even when it is nothing
returnFetchedOnly(articles, rows, updatedArticleIds, readOk) ==
  IF readOk
  THEN Items(getArticlesByIds(rows,
               { updatedArticleIds[k] : k \in 1..Len(updatedArticleIds) }))
  ELSE Items(<<>>)

\* the end of updateArticleImages: the updated rows read back from
\* storage, or the articles given when nothing was updated or read
returnUpdated(articles, rows, updatedArticleIds, readOk) ==
  LET updatedArticles ==
        getArticlesByIds(rows,
          { updatedArticleIds[k] : k \in 1..Len(updatedArticleIds) })
  IN  IF Len(updatedArticleIds) > 0 /\ readOk /\ updatedArticles # <<>>
      THEN Items(updatedArticles)
      ELSE Items(articles)

NothingSent(result, rows) ==
  [result |-> result, rows |-> rows, submitted |-> <<>>, issued |-> <<>>,
   updatedArticleIds |-> <<>>]

\* CollectorModule.updateArticleImages.  api: what the request brings;
\* items: result.results, one item per id sent; writeOk: whether the UPDATE
\* of an item executes; readOk: whether the SELECT of getArticlesByIds does.
\* The result, the rows afterwards, the ids sent, the items an UPDATE was
\* issued for and the ids whose row was updated.
updateArticleImages(articles, rows, api, items, writeOk, readOk) ==
  LET ids == imageUpdateData(articles)
  IN  IF Len(ids) = 0 THEN NothingSent(Items(articles), rows)
      ELSE IF ~responseOk(api)
           THEN [NothingSent(NullResult, rows) EXCEPT !.submitted = ids]
           ELSE LET p == processResults(items, ids, rows, writeOk, 1)
                IN  [result |-> returnUpdated(articles, p.rows,
                                              p.updatedArticleIds, readOk),
                     rows |-> p.rows, submitted |-> ids,
                     issued |-> p.issued,
                     updatedArticleIds |-> p.updatedArticleIds]

----------------------------------------------------------------------------
(* One call of updateArticleImages by the callback *)

MaxBatch == 2      \* articles handed to one call of a later stage

\* article k of a batch, saved (its id is that of its row) or not, with or
\* without an image; later articles of the batch are the newer ones
ImageArticle(k, saved, image) ==
  [link |-> k, title |-> <<"R", k>>,
   created |-> createTimestamp(2025, 10, 24, 20, 10 + k), image |-> image,
   id |-> IF saved THEN k ELSE 0]

ImageLists ==
  UNION { { [k \in 1..n |-> ImageArticle(k, saved[k], image[k])] :
              saved \in [1..n -> BOOLEAN], image \in [1..n -> BOOLEAN] } :
          n \in 0..MaxBatch }

\* the rows of the saved articles of a batch
RowsOf(articles) ==
  { [id |-> articles[k].id, story |-> articles[k].link,
     title |-> articles[k].title, status |-> "Published",
     created |-> articles[k].created, image |-> articles[k].image] :
      k \in { j \in 1..Len(articles) : articles[j].id # 0 } }

ImageInit ==
  /\ now = Clock2100
  /\ site = <<>>
  /\ sc = ScraperIdle
  /\ conv = ConvIdle
  /\ an = AnalyzeIdle
  /\ \E articles \in ImageLists :
       /\ st = [pc |-> "start", articles |-> articles]
       /\ db = RowsOf(articles)
  /\ proc = "boot"
  /\ registry = <<>>
  /\ timers = <<>>
  /\ tick = 0
  /\ fired = {}
  /\ cycles = {}
  /\ log = {}

\* await this.updateArticleImages(formattedData)
Reconcile ==
  /\ st.pc = "start"
  /\ \E api \in ApiOutcomes, readOk \in BOOLEAN :
       \E items \in [1..Len(imageUpdateData(st.articles)) -> ResultItems],
          writeOk \in [1..Len(imageUpdateData(st.articles)) -> BOOLEAN] :
         LET u == updateArticleImages(st.articles, db, api, items, writeOk,
                                      readOk)
         IN  /\ st' = [pc |-> "reconciled", articles |-> st.articles,
                       api |-> api, items |-> items, writeOk |-> writeOk,
                       readOk |-> readOk, rowsBefore |-> db,
                       result |-> u.result, submitted |-> u.submitted,
                       issued |-> u.issued,
                       updatedArticleIds |-> u.updatedArticleIds]
             /\ db' = u.rows
  /\ UNCHANGED <<now, site, sc, conv, an>>
  /\ UNCHANGED <<proc, registry, timers, tick, fired, cycles, log>>

\* "if (updatedArticles)": on to sendArticles, or the callback ends
AfterReconcile ==
  /\ st.pc = "reconciled"
  /\ st' = [st EXCEPT !.pc = IF truthy(st.result) THEN "Delivering" ELSE "Idle"]
  /\ UNCHANGED <<now, site, sc, conv, an>>
  /\ UNCHANGED collectorVars

ImageNext ==
  \/ Reconcile
  \/ AfterReconcile

ImageSpec == ImageInit /\ [][ImageNext]_vars

Reconciled == st.pc \in {"reconciled", "Delivering", "Idle"}

\* article j of the batch has an identifier and an image
Persisted(j) == st.articles[j].id # 0 /\ st.articles[j].image

\* C25: when the endpoint answers with a non-success status, the step
\* returns null, no UPDATE is issued, the table is as before and the
\* callback does not go on to the delivery stage.
C25_TransportFailureFailsTheStep ==
  (Reconciled /\ st.api = "notOk" /\ st.submitted # <<>>) =>
    /\ st.result = NullResult
    /\ st.issued = <<>>
    /\ db = st.rowsBefore
    /\ st.pc # "Delivering"

\* two articles were sent, the endpoint answered with an error status and
\* the callback ended
C25_Witness ==
  /\ st.pc = "Idle"
  /\ st.api = "notOk"
  /\ Len(st.submitted) = 2
  /\ \E k \in 1..2 : qualifies(st.items[k])

\* C26: an UPDATE is issued for item k of the response if and only if the
\* item reports success and holds a non-empty replacement image, whatever
\* the items before it reported and whether or not their UPDATE succeeded.
C26_UpdateIffSuccessWithImage ==
  (Reconciled /\ st.api = "ok") =>
    \A k \in 1..Len(st.items) :
      (\E i \in 1..Len(st.issued) : st.issued[i] = k)
        <=> (st.items[k].success /\ st.items[k].newImage)

\* the UPDATE of the first item failed and the second item was still
\* written back
C26_Witness ==
  /\ Reconciled
  /\ st.api = "ok"
  /\ Len(st.items) = 2
  /\ st.writeOk = <<FALSE, TRUE>>
  /\ st.issued = <<1, 2>>
  /\ st.updatedArticleIds = <<st.submitted[2]>>

\* C27: when no article of the batch has both an identifier and an image,
\* or the response was received and no item was written back, the step
\* returns the list it was given.
C27_NothingUpdatedReturnsInput ==
  ( /\ Reconciled
    /\ \/ \A j \in 1..Len(st.articles) : ~Persisted(j)
       \/ st.api = "ok" /\ st.updatedArticleIds = <<>> )
  => st.result = Items(st.articles)

\* two articles were sent, both items reported failure, and the two
\* articles came back
C27_Witness ==
  /\ Reconciled
  /\ st.api = "ok"
  /\ Len(st.submitted) = 2
  /\ \A k \in 1..2 : ~st.items[k].success
  /\ st.result = Items(st.articles)

\* C29: only articles with an identifier and an image are sent to the
\* endpoint or get an UPDATE, and the step returns null only when the
\* request to the endpoint failed; a batch of articles without identifier
\* or image comes back as it was.
C29_UnsavedArticlesAreLeftAlone ==
  Reconciled =>
    /\ \A k \in 1..Len(st.submitted) :
         \E j \in 1..Len(st.articles) :
           Persisted(j) /\ st.articles[j].id = st.submitted[k]
    /\ \A i \in 1..Len(st.issued) :
         \E j \in 1..Len(st.articles) :
           Persisted(j) /\ st.articles[j].id = st.submitted[st.issued[i]]
    /\ st.result.null => (st.api # "ok" /\ st.submitted # <<>>)
    /\ (\A j \in 1..Len(st.articles) : ~Persisted(j)) =>
         st.result = Items(st.articles)

\* an article without identifier went in with a saved article that has an
\* image: only the second was sent and updated, and the step did not fail
C29_Witness ==
  /\ Reconciled
  /\ Len(st.articles) = 2
  /\ st.articles[1].id = 0
  /\ Persisted(2)
  /\ st.api = "ok"
  /\ st.submitted = <<st.articles[2].id>>
  /\ st.issued = <<1>>
  /\ ~st.result.null

\* C39: when the endpoint answered with a success status, every article
\* given to the step is in what it returns, known by its identifier or,
\* without one, by its link.
C39_NoArticleLost ==
  (Reconciled /\ st.api = "ok" /\ st.submitted # <<>>) =>
    \A k \in 1..Len(st.articles) :
      \E j \in 1..Len(st.result.items) :
        IF st.articles[k].id # 0
        THEN st.result.items[j].id = st.articles[k].id
        ELSE st.result.items[j].link = st.articles[k].link

----------------------------------------------------------------------------
(* Delivery *)

\* A text is a sequence of letters, named here in Latin script: "i", "yi",
\* "ye", "ghe" and their capitals are the letters of /[іїєґІЇЄҐ]/, the
\* others are Cyrillic letters that other languages have too.
UkrainianLetters == { "i", "yi", "ye", "ghe", "I", "YI", "YE", "GHE" }

hasUkrainianLettersLower(value) ==
  \E k \in 1..Len(value) : value[k] \in { "i", "yi", "ye", "ghe" }

\* /[іїєґІЇЄҐ]/.test(value)
hasUkrainianLetters(value) ==
  \E k \in 1..Len(value) : value[k] \in UkrainianLetters

NoText == <<>>
SharedText == <<"ka", "o", "te">>
UkrainianText == <<"ka", "i", "te">>
CapitalText == <<"GHE", "o", "l">>

\* the title and the body of an article as texts; the articles of the
\* pipeline are kept without their wording, which is Ukrainian
wording(article) ==
  IF "content" \in DOMAIN article
  THEN [title |-> article.title, content |-> article.content]
  ELSE [title |-> UkrainianText, content |-> UkrainianText]

\* the articles sendArticles transmits: image, title and body are there,
\* and `${article.title} ${article.content}` has a Ukrainian letter
eligible(article) ==
  LET w == wording(article)
      textForLanguageCheck == w.title \o <<" ">> \o w.content
  IN  /\ article.image
      /\ w.title # NoText
      /\ w.content # NoText
      /\ hasUkrainianLetters(textForLanguageCheck)

\* TelegramProvider.sendArticles; accepted is the set of links whose
\* sendPhoto request succeeds.  transmitted: the links a sendPhoto request
\* was made for; delivered: the articles whose request succeeded; failures:
\* the links of the rejected promises; sent and skipped: the summary.
sendArticles(articles, accepted) ==
  LET tried == { j \in 1..Len(articles) : eligible(articles[j]) }
      done == { j \in tried : articles[j].link \in accepted }
  IN  [transmitted |-> { articles[j].link : j \in tried },
       delivered |-> { articles[j] : j \in done },
       failures |-> { articles[j].link : j \in tried \ done },
       sent |-> Cardinality(done),
       skipped |-> Len(articles) - Cardinality(tried)]

----------------------------------------------------------------------------
(* One call of sendArticles *)

SendTitles == { NoText, SharedText, UkrainianText }
SendBodies == { NoText, SharedText, CapitalText }

SendLists ==
  UNION { { [k \in 1..n |->
               [link |-> k, title |-> title[k], content |-> content[k],
                created |-> createTimestamp(2025, 10, 24, 20, 16),
                image |-> image[k], id |-> k]] :
              title \in [1..n -> SendTitles],
              content \in [1..n -> SendBodies],
              image \in [1..n -> BOOLEAN] } :
          n \in 0..MaxBatch }

SendInit ==
  /\ now = Clock2100
  /\ site = <<>>
  /\ sc = ScraperIdle
  /\ conv = ConvIdle
  /\ an = AnalyzeIdle
  /\ \E articles \in SendLists : st = [pc |-> "start", articles |-> articles]
  /\ proc = "boot"
  /\ registry = <<>>
  /\ timers = <<>>
  /\ tick = 0
  /\ fired = {}
  /\ cycles = {}
  /\ db = {}
  /\ log = {}

\* await telegramProvider.sendArticles(updatedArticles)
Send ==
  /\ st.pc = "start"
  /\ \E accepted \in SUBSET { st.articles[k].link : k \in 1..Len(st.articles) } :
       LET telegramResult == sendArticles(st.articles, accepted)
       IN  /\ st' = [pc |-> "sent", articles |-> st.articles,
                     accepted |-> accepted, result |-> telegramResult]
           /\ log' = log \cup { [src |-> 0, n |-> 0, article |-> a] :
                                a \in telegramResult.delivered }
  /\ UNCHANGED <<now, site, sc, conv, an>>
  /\ UNCHANGED <<proc, registry, timers, tick, fired, cycles, db>>

SendNext == Send

SendSpec == SendInit /\ [][SendNext]_vars

\* article k of the batch lacks an image, a title or a body, or its title
\* and body together have none of the letters of /[іїєґІЇЄҐ]/
Unfit(k) ==
  LET a == st.articles[k]
  IN  \/ ~a.image
      \/ Len(a.title) = 0
      \/ Len(a.content) = 0
      \/ \A letter \in { a.title[i] : i \in 1..Len(a.title) }
                         \cup { a.content[i] : i \in 1..Len(a.content) } :
           letter \notin { "i", "yi", "ye", "ghe", "I", "YI", "YE", "GHE" }

\* C30: no transmission is made for an article exactly when it is unfit;
\* the skipped count is the number of unfit articles, and no unfit article
\* is among the failures.
C30_SkippedIffUnfit ==
  st.pc = "sent" =>
    /\ \A k \in 1..Len(st.articles) :
         (st.articles[k].link \notin st.result.transmitted) <=> Unfit(k)
    /\ st.result.skipped =
         Cardinality({ k \in 1..Len(st.articles) : Unfit(k) })
    /\ \A k \in 1..Len(st.articles) :
         Unfit(k) => st.articles[k].link \notin st.result.failures

\* an article without Ukrainian letters was skipped; one whose only
\* Ukrainian letter is a capital in the body was transmitted and refused
C30_Witness ==
  /\ st.pc = "sent"
  /\ Len(st.articles) = 2
  /\ st.articles[1].image /\ st.articles[1].title = SharedText
  /\ st.articles[1].content = SharedText
  /\ st.articles[2].image /\ st.articles[2].title = SharedText
  /\ st.articles[2].content = CapitalText
  /\ st.accepted = {}
  /\ st.result.skipped = 1
  /\ st.result.transmitted = {2}
  /\ st.result.failures = {2}

----------------------------------------------------------------------------
(* sendArticles, one send task per article *)

\* task k of articles.map(async ...): "new" before the map, "skipped" after
\* an early return, "inflight" while its sendPhoto request is awaited,
\* "sent" or "failed" once the request is settled
DeliveryInit ==
  /\ now = Clock2100
  /\ site = <<>>
  /\ sc = ScraperIdle
  /\ conv = ConvIdle
  /\ an = AnalyzeIdle
  /\ \E articles \in SendLists :
       st = [pc |-> "start", articles |-> articles,
             tasks |-> [k \in 1..Len(articles) |-> "new"],
             sent |-> 0, skipped |-> 0, order |-> <<>>,
             result |-> NullResult]
  /\ proc = "boot"
  /\ registry = <<>>
  /\ timers = <<>>
  /\ tick = 0
  /\ fired = {}
  /\ cycles = {}
  /\ db = {}
  /\ log = {}

\* articles.map(...): every callback runs, in input order, up to its first
\* await that is not yet settled: the early returns count a skip, the
\* others have called fetch by then
MapTasks ==
  /\ st.pc = "start"
  /\ LET fit == { k \in 1..Len(st.articles) : eligible(st.articles[k]) }
     IN  st' = [st EXCEPT
                  !.pc = "settling",
                  !.tasks = [k \in 1..Len(st.articles) |->
                               IF k \in fit THEN "inflight" ELSE "skipped"],
                  !.skipped = Len(st.articles) - Cardinality(fit)]
  /\ UNCHANGED <<now, site, sc, conv, an>>
  /\ UNCHANGED collectorVars

\* the counter is written from a value read before the await
RespondStale(k) ==
  /\ st.pc = "settling"
  /\ k \in 1..Len(st.articles)
  /\ st.tasks[k] = "inflight"
  /\ \E api \in ApiOutcomes :
       st' = [st EXCEPT
                !.tasks[k] = IF responseOk(api) THEN "sent" ELSE "failed",
                !.sent = IF responseOk(api) THEN 1 ELSE @,
                !.order = IF responseOk(api)
                          THEN Append(@, st.articles[k].link) ELSE @]
  /\ UNCHANGED <<now, site, sc, conv, an>>
  /\ UNCHANGED collectorVars

\* the request of task k is settled: the channel took the photo and
\* "sent += 1" runs, or post threw on the status or fetch rejected
Respond(k) ==
  /\ st.pc = "settling"
  /\ k \in 1..Len(st.articles)
  /\ st.tasks[k] = "inflight"
  /\ \E api \in ApiOutcomes :
       st' = [st EXCEPT
                !.tasks[k] = IF responseOk(api) THEN "sent" ELSE "failed",
                !.sent = IF responseOk(api) THEN @ + 1 ELSE @,
                !.order = IF responseOk(api)
                          THEN Append(@, st.articles[k].link) ELSE @]
  /\ UNCHANGED <<now, site, sc, conv, an>>
  /\ UNCHANGED collectorVars

\* Promise.all in place of Promise.allSettled: the first rejection leaves
\* sendArticles
SummaryOnFirstFailure ==
  /\ st.pc = "settling"
  /\ \/ \E k \in 1..Len(st.articles) : st.tasks[k] = "failed"
     \/ \A k \in 1..Len(st.articles) : st.tasks[k] # "inflight"
  /\ st' = [st EXCEPT
              !.pc = "returned",
              !.result = IF \E k \in 1..Len(st.articles) : st.tasks[k] = "failed"
                         THEN Threw ELSE Items(<<st.sent, st.skipped>>)]
  /\ UNCHANGED <<now, site, sc, conv, an>>
  /\ UNCHANGED collectorVars

\* Promise.allSettled resolves once no task is pending; the rejections are
\* logged and { sent, skipped } is returned
Summary ==
  /\ st.pc = "settling"
  /\ \A k \in 1..Len(st.articles) : st.tasks[k] # "inflight"
  /\ st' = [st EXCEPT !.pc = "returned",
                      !.result = Items(<<st.sent, st.skipped>>)]
  /\ UNCHANGED <<now, site, sc, conv, an>>
  /\ UNCHANGED collectorVars

DeliveryNext ==
  \/ MapTasks
  \/ \E k \in 1..MaxBatch : Respond(k)
  \/ Summary

DeliverySpec == DeliveryInit /\ [][DeliveryNext]_vars

Fit(k) == ~Unfit(k)
Started(k) == st.tasks[k] \in {"inflight", "sent", "failed"}
Settled(k) == st.tasks[k] \in {"sent", "failed"}
TasksIn(state) == { k \in 1..Len(st.articles) : st.tasks[k] = state }

\* C31: sendArticles returns its summary without throwing, and by then a
\* transmission was attempted for every eligible article, whatever became
\* of the others.
C31_FailureDoesNotAbortDelivery ==
  st.pc = "returned" =>
    /\ ~st.result.threw
    /\ st.result.items = <<st.sent, st.skipped>>
    /\ \A k \in 1..Len(st.articles) : Fit(k) => Settled(k)

\* the first transmission failed, the second succeeded, and the summary
\* { sent: 1, skipped: 0 } came back
C31_Witness ==
  /\ st.pc = "returned"
  /\ st.tasks = <<"failed", "sent">>
  /\ st.result = Items(<<1, 0>>)

\* C35: the transmission of an eligible article is started only when those
\* of the eligible articles before it are completed, and the channel takes
\* the articles in input order.
C35_OneTransmissionAtATime ==
  st.pc \in {"settling", "returned"} =>
    /\ \A j, k \in 1..Len(st.articles) :
         (j < k /\ Fit(j) /\ Started(k)) => Settled(j)
    /\ \A i, j \in 1..Len(st.order) : i < j => st.order[i] < st.order[j]

\* C37: at every moment sent is the number of transmissions completed
\* successfully, and in the summary sent, skipped and the failed
\* transmissions add up to the number of articles.
C37_SummaryAddsUp ==
  /\ st.pc \in {"settling", "returned"} =>
       st.sent = Cardinality(TasksIn("sent"))
  /\ st.pc = "returned" =>
       /\ st.result.items[1] = Cardinality(TasksIn("sent"))
       /\ st.result.items[1] + st.result.items[2]
            + Cardinality(TasksIn("failed")) = Len(st.articles)

\* two transmissions completed in the reverse of the input order and the
\* summary counts both
C37_Witness ==
  /\ st.pc = "returned"
  /\ st.order = <<2, 1>>
  /\ st.result = Items(<<2, 0>>)

----------------------------------------------------------------------------
(* Captions *)

\* A text is a sequence of runs.  The run [ch, n, esc] is the character ch
\* written n times; esc: each of the n characters is written after a
\* backslash, so that the run is 2 * n characters long.
Run(ch, n) == [ch |-> ch, n |-> n, esc |-> FALSE]
Escaped(ch, n) == [ch |-> ch, n |-> n, esc |-> TRUE]

runLength(run) == IF run.esc THEN 2 * run.n ELSE run.n

\* String.prototype.length
RECURSIVE length(_)
length(text) ==
  IF text = <<>> THEN 0 ELSE runLength(Head(text)) + length(Tail(text))

TELEGRAM_CAPTION_LIMIT == 1024

\* the characters of the class MARKDOWN_V2_SPECIALS; "grave" is the grave
\* accent
MARKDOWN_V2_SPECIALS ==
  { "\\", "_", "*", "[", "]", "(", ")", "~", "grave", ">", "#", "+", "-",
    "=", "|", "{", "}", ".", "!" }

\* the characters of the class [*_]
MarkdownMarkers == { "*", "_" }

WhiteSpace == { " ", "\n" }

\* value.replace(MARKDOWN_V2_SPECIALS, '\\$&'), of a text without escapes
escapeMarkdownV2(value) ==
  [k \in DOMAIN value |->
     IF value[k].ch \in MARKDOWN_V2_SPECIALS
     THEN Escaped(value[k].ch, value[k].n) ELSE value[k]]

\* value.replace(/[*_]/g, '')
stripMarkdownMarkers(value) ==
  SelectSeq(value, LAMBDA run : run.ch \notin MarkdownMarkers)

RECURSIVE trimStartOfRuns(_)
trimStartOfRuns(text) ==
  IF text # <<>> /\ Head(text).ch \in WhiteSpace /\ ~Head(text).esc
  THEN trimStartOfRuns(Tail(text)) ELSE text

RECURSIVE trimEndOfRuns(_)
trimEndOfRuns(text) ==
  IF text # <<>> /\ text[Len(text)].ch \in WhiteSpace /\ ~text[Len(text)].esc
  THEN trimEndOfRuns(SubSeq(text, 1, Len(text) - 1)) ELSE text

trimOfRuns(text) == trimEndOfRuns(trimStartOfRuns(text))

\* text.slice(0, end): the first end characters.  A cut inside an escaped run
\* after an odd number of characters keeps the backslash of the next pair.
RECURSIVE slice(_, _)
slice(text, end) ==
  IF text = <<>> \/ end <= 0 THEN <<>>
  ELSE LET run == Head(text)
       IN  IF runLength(run) <= end
           THEN <<run>> \o slice(Tail(text), end - runLength(run))
           ELSE IF ~run.esc THEN << Run(run.ch, end) >>
           ELSE (IF end \div 2 > 0
                 THEN << Escaped(run.ch, end \div 2) >> ELSE <<>>)
                \o (IF end % 2 = 1 THEN << Run("\\", 1) >> ELSE <<>>)

\* `*${safeTitle}*`
titleLineOf(safeTitle) == << Run("*", 1) >> \o safeTitle \o << Run("*", 1) >>

separator == << Run("\n", 2) >>

\* '\\.\\.\\.'
ellipsis == << Escaped(".", 3) >>

\* TelegramProvider.buildCaption
buildCaption(title, content, limit) ==
  LET safeTitle == escapeMarkdownV2(stripMarkdownMarkers(trimOfRuns(title)))
      safeContent ==
        escapeMarkdownV2(stripMarkdownMarkers(trimOfRuns(content)))
      titleLine == titleLineOf(safeTitle)
      fullCaption == titleLine \o separator \o safeContent
      room == limit - length(titleLine) - length(separator)
                - length(ellipsis)
      maxContentLength == IF room > 0 THEN room ELSE 0
      truncatedContent ==
        IF maxContentLength > 0
        THEN trimEndOfRuns(slice(safeContent, maxContentLength)) \o ellipsis
        ELSE <<>>
  IN  IF length(fullCaption) <= limit THEN fullCaption
      ELSE IF truncatedContent # <<>>
           THEN titleLine \o separator \o truncatedContent
           ELSE titleLine

----------------------------------------------------------------------------
(* One call of buildCaption by sendArticle *)

\* the lengths of the runs of a title or a body
RunSizes == { 1, 7, 600, 1014 }

InputRuns == { Run(ch, n) : ch \in { "a", ".", "*", " " }, n \in RunSizes }

\* titles and bodies: one run, or two runs of different characters
InputTexts ==
  { <<r>> : r \in InputRuns }
    \cup { t \in InputRuns \X InputRuns : t[1].ch # t[2].ch }

CaptionInit ==
  /\ now = Clock2100
  /\ site = <<>>
  /\ sc = ScraperIdle
  /\ conv = ConvIdle
  /\ an = AnalyzeIdle
  /\ \E title \in InputTexts, content \in InputTexts :
       st = [pc |-> "start", title |-> title, content |-> content]
  /\ proc = "boot"
  /\ registry = <<>>
  /\ timers = <<>>
  /\ tick = 0
  /\ fired = {}
  /\ cycles = {}
  /\ db = {}
  /\ log = {}

\* const caption = this.buildCaption(article.title, article.content,
\* TELEGRAM_CAPTION_LIMIT)
BuildCaption ==
  /\ st.pc = "start"
  /\ st' = [pc |-> "built", title |-> st.title, content |-> st.content,
            caption |->
              buildCaption(st.title, st.content, TELEGRAM_CAPTION_LIMIT)]
  /\ UNCHANGED <<now, site, sc, conv, an, proc, registry, timers, tick,
                 fired, cycles, db, log>>

CaptionNext == BuildCaption

CaptionSpec == CaptionInit /\ [][CaptionNext]_vars

\* the escaped title and body of the call, and the caption without a limit
SafeTitle == escapeMarkdownV2(stripMarkdownMarkers(trimOfRuns(st.title)))
SafeContent == escapeMarkdownV2(stripMarkdownMarkers(trimOfRuns(st.content)))
Untruncated == titleLineOf(SafeTitle) \o separator \o SafeContent

StartsWith(text, prefix) ==
  /\ Len(prefix) <= Len(text)
  /\ SubSeq(text, 1, Len(prefix)) = prefix

EndsWith(text, suffix) ==
  /\ Len(suffix) <= Len(text)
  /\ SubSeq(text, Len(text) - Len(suffix) + 1, Len(text)) = suffix

\* C32: the caption is at most TELEGRAM_CAPTION_LIMIT characters long and
\* holds the complete escaped title between the emphasis markers; when the
\* untruncated caption is longer than the limit, only the body is shortened
\* and the caption ends with the ellipsis.
C32_CaptionWithinLimit ==
  st.pc = "built" =>
    /\ length(st.caption) <= TELEGRAM_CAPTION_LIMIT
    /\ StartsWith(st.caption, titleLineOf(SafeTitle))
    /\ length(Untruncated) > TELEGRAM_CAPTION_LIMIT =>
         /\ StartsWith(st.caption, titleLineOf(SafeTitle) \o separator)
         /\ EndsWith(st.caption, ellipsis)

\* C40: in the caption every special character of the markup, the two
\* emphasis markers of the title aside, is written after a backslash: no
\* slice has cut the backslash of a pair from its character.
C40_EverySpecialEscaped ==
  st.pc = "built" =>
    \A k \in 1..Len(st.caption) :
      \/ k \in { 1, Len(SafeTitle) + 2 }
      \/ st.caption[k].ch \in MARKDOWN_V2_SPECIALS => st.caption[k].esc

----------------------------------------------------------------------------
(* The sources and the scheduled job *)

MaxSources == 2
SourceIds == 1..MaxSources

Sources ==
  [id : SourceIds, reader : {"Scrapper", "Api"}, status : {"Active", "Inactive"}]

\* SourceModule.getSources: one entry per source id; every source but the
\* last reads with the scrapper, as the sources of the catalog do
Registries ==
  { r \in [SourceIds -> Sources] :
      \A s \in SourceIds : /\ r[s].id = s
                           /\ s < MaxSources => r[s].reader = "Scrapper" }

\* the cron expression '0 */2 * * * *'
CRON_PERIOD_MS == 2 * 60 * 1000

Stages ==
  <<"Scraping", "Deduplicating", "Rewriting", "ReconcilingImages", "Delivering">>
StageSet == { Stages[k] : k \in 1..Len(Stages) }

\* the listings the pipeline meets
FreshPage == [kind |-> "ok", date |-> Date2016, image |-> TRUE]
BarePage == [kind |-> "ok", date |-> Date2016, image |-> FALSE]
StalePage == [kind |-> "ok", date |-> Date0930, image |-> TRUE]
PipelineListings ==
  { <<FreshPage>>, <<StalePage, FreshPage>>, <<FreshPage, BarePage>>,
    <<FreshPage, FreshPage>> }

\* CollectorModule.start: the number of cron tasks scheduled for each source
startInverted(resources) ==
  [s \in SourceIds |->
     Cardinality({ k \in DOMAIN resources :
                     resources[k].id = s /\ resources[k].status # "Active" })]

start(resources) ==
  [s \in SourceIds |->
     Cardinality({ k \in DOMAIN resources :
                     resources[k].id = s /\ resources[k].status = "Active" })]

\* the stage of cycle c ended with r: remember a failure and a null or
\* empty result
note(c, r) ==
  IF r.threw THEN [c EXCEPT !.failed = TRUE]
  ELSE IF r.null \/ r.items = <<>>
       THEN [c EXCEPT !.nodata = @ \cup {c.pc}] ELSE c

\* the cron callback after the awaited stage of c gave r: the callback
\* rejects, returns, or calls the stage next
advanceSwallow(c, r, next) ==
  [note(c, r) EXCEPT !.pc = next, !.data = r.items, !.hist = Append(@, next)]

advance(c, r, next) ==
  IF r.threw THEN [note(c, r) EXCEPT !.pc = "Rejected", !.data = <<>>]
  ELSE IF ~truthy(r) THEN [note(c, r) EXCEPT !.pc = "Idle", !.data = <<>>]
  ELSE [note(c, r) EXCEPT !.pc = next, !.data = r.items,
                          !.hist = Append(@, next)]

Init ==
  /\ now = Clock2100
  /\ site \in PipelineListings
  /\ sc = ScraperIdle
  /\ conv = ConvIdle
  /\ an = AnalyzeIdle
  /\ st = StageIdle
  /\ proc = "boot"
  /\ registry \in Registries
  /\ timers = [s \in SourceIds |-> 0]
  /\ tick = 0
  /\ fired = {}
  /\ cycles = {}
  /\ db \in Tables
  /\ log = {}

\* main(): new CollectorModule()
Construct ==
  /\ proc = "boot"
  /\ proc' = "constructed"
  /\ UNCHANGED <<registry, timers, tick, fired, cycles, db, log>>
  /\ UNCHANGED scraperVars

\* the callback of a firing of the timer of source s in period n, at its
\* first statement
NewCycle(s, n) ==
  [src |-> s, n |-> n, pc |-> "Scraping", data |-> <<>>,
   hist |-> <<"Scraping">>, nodata |-> {}, failed |-> FALSE]

\* start runs the pipeline of every Active source before it returns
StartEager ==
  /\ proc = "constructed"
  /\ proc' = "running"
  /\ timers' = start(registry)
  /\ cycles' = { NewCycle(s, 0) :
                   s \in { t \in SourceIds : registry[t].status = "Active" } }
  /\ UNCHANGED <<registry, tick, fired, db, log>>
  /\ UNCHANGED scraperVars

\* collectorModule.start(): the timers are scheduled and start returns
Start ==
  /\ proc = "constructed"
  /\ proc' = "running"
  /\ timers' = start(registry)
  /\ UNCHANGED <<registry, tick, fired, cycles, db, log>>
  /\ UNCHANGED scraperVars

\* the construction throws: logger.error and process.exit(1)
BootFail ==
  /\ proc = "boot"
  /\ proc' = "exited"
  /\ UNCHANGED <<registry, timers, tick, fired, cycles, db, log>>
  /\ UNCHANGED scraperVars

\* the next cron period begins, after every timer fired in this one
Tick ==
  /\ proc = "running"
  /\ fired # {}
  /\ \A s \in SourceIds : timers[s] > 0 => s \in fired
  /\ Cardinality(cycles) < MaxRuns
  /\ tick' = tick + 1
  /\ now' = now + CRON_PERIOD_MS
  /\ fired' = {}
  /\ UNCHANGED <<site, sc, conv, an, st, proc, registry, timers, cycles, db, log>>

\* the timer of source s fires: the callback starts and calls processResource
Fire(s) ==
  /\ proc = "running"
  /\ timers[s] > 0
  /\ s \notin fired
  /\ Cardinality(cycles) < MaxRuns
  /\ fired' = fired \cup {s}
  /\ cycles' = cycles \cup { NewCycle(s, tick) }
  /\ UNCHANGED <<proc, registry, timers, tick, db, log>>
  /\ UNCHANGED scraperVars

\* await this.processResource(resource)
ScrapeDone(c) ==
  /\ proc = "running"
  /\ c.pc = "Scraping"
  /\ \E setupOk \in BOOLEAN :
       LET r == processResource(registry[c.src], site, setupOk, now)
       IN  cycles' = (cycles \ {c}) \cup {advance(c, r, "Deduplicating")}
  /\ UNCHANGED <<proc, registry, timers, tick, fired, db, log>>
  /\ UNCHANGED scraperVars

\* await this.analyzerModule.startAnalyze(articles)
AnalyzeDone(c) ==
  /\ proc = "running"
  /\ c.pc = "Deduplicating"
  /\ \E queryOk \in BOOLEAN, embed \in EmbedOutcomes :
       LET r == startAnalyze(c.data, db, queryOk, embed, now).result
       IN  cycles' = (cycles \ {c}) \cup {advance(c, r, "Rewriting")}
  /\ UNCHANGED <<proc, registry, timers, tick, fired, db, log>>
  /\ UNCHANGED scraperVars

\* await this.formatterModule.formatData(analyzedArticles)
FormatDone(c) ==
  /\ proc = "running"
  /\ c.pc = "Rewriting"
  /\ \E replies \in [1..Len(c.data) -> PipelineReplies] :
       LET r == formatData(c.data, replies)
       IN  cycles' = (cycles \ {c}) \cup {advance(c, r, "ReconcilingImages")}
  /\ UNCHANGED <<proc, registry, timers, tick, fired, db, log>>
  /\ UNCHANGED scraperVars

\* await this.updateArticleImages(formattedData)
ImagesDone(c) ==
  /\ proc = "running"
  /\ c.pc = "ReconcilingImages"
  /\ \E api \in ApiOutcomes, readOk \in BOOLEAN :
       \E items \in [1..Len(imageUpdateData(c.data)) -> ResultItems],
          writeOk \in [1..Len(imageUpdateData(c.data)) -> BOOLEAN] :
         LET u == updateArticleImages(c.data, db, api, items, writeOk, readOk)
         IN  /\ cycles' =
                  (cycles \ {c}) \cup {advance(c, u.result, "Delivering")}
             /\ db' = u.rows
  /\ UNCHANGED <<proc, registry, timers, tick, fired, log>>
  /\ UNCHANGED scraperVars

\* await telegramProvider.sendArticles(updatedArticles), inside try/catch
DeliverDone(c) ==
  /\ proc = "running"
  /\ c.pc = "Delivering"
  /\ \E accepted \in SUBSET { c.data[k].link : k \in 1..Len(c.data) } :
       log' = log \cup { [src |-> c.src, n |-> c.n, article |-> a] :
                         a \in sendArticles(c.data, accepted).delivered }
  /\ cycles' = (cycles \ {c}) \cup {[c EXCEPT !.pc = "Idle", !.data = <<>>]}
  /\ UNCHANGED <<proc, registry, timers, tick, fired, db>>
  /\ UNCHANGED scraperVars

Next ==
  \/ Construct
  \/ Start
  \/ BootFail
  \/ Tick
  \/ \E s \in SourceIds : Fire(s)
  \/ \E c \in cycles : ScrapeDone(c)
  \/ \E c \in cycles : AnalyzeDone(c)
  \/ \E c \in cycles : FormatDone(c)
  \/ \E c \in cycles : ImagesDone(c)
  \/ \E c \in cycles : DeliverDone(c)

Spec == Init /\ [][Next]_vars

----------------------------------------------------------------------------
(* Properties of the scheduled job *)

Running(s) == { c \in cycles : c.src = s /\ c.pc \in StageSet }

\* C3: a stage that returned null or an empty list is the last stage the
\* cycle invokes; in particular an empty scrape result keeps the
\* deduplication stage from being called.
C3_NoDataShortCircuits ==
  \A c \in cycles :
    \A k \in 1..Len(c.hist) : c.hist[k] \in c.nodata => k = Len(c.hist)

\* C4: the stages of a cycle are invoked in the fixed order, each at most
\* once, a stage only after the stage before it returned data, and a
\* cycle that is not in its last invoked stage is idle.
C4_StageOrder ==
  \A c \in cycles :
    /\ Len(c.hist) <= Len(Stages)
    /\ \A k \in 1..Len(c.hist) :
         /\ c.hist[k] = Stages[k]
         /\ k > 1 => c.hist[k - 1] \notin c.nodata
    /\ c.pc \in StageSet => c.pc = c.hist[Len(c.hist)]

\* C5: every article transmitted to the channel carries the identifier of
\* a row that storage holds for it.
C5_PersistedBeforeDelivery ==
  \A d \in log :
    /\ d.article.id # 0
    /\ \E r \in db : r.id = d.article.id /\ r.story = d.article.link

\* C6: an article delivered by one cycle of a source is not delivered again
\* by a later cycle of that source (every cycle of the model runs inside the
\* recency window and the look-back day of the first).
C6_NoRedelivery ==
  \A d1 \in log, d2 \in log :
    (d1.src = d2.src /\ d1.article.link = d2.article.link) => d1.n = d2.n

\* C7: at most one cycle of a source is between Scraping and Delivering.
C7_NoOverlap ==
  \A s \in SourceIds : Cardinality(Running(s)) <= 1

C9_NoFailureEscapes ==
  /\ \A c \in cycles : c.pc # "Rejected"
  /\ cycles # {} => proc = "running"

\* C10: exactly one timer is scheduled for every Active source, none for
\* any other, and only Active sources run the pipeline.
C10_TimersOfActiveSources ==
  /\ proc = "running" =>
       \A s \in SourceIds :
         timers[s] = IF registry[s].status = "Active" THEN 1 ELSE 0
  /\ \A c \in cycles : registry[c.src].status = "Active"

\* an Active source ran a cycle to the end next to an Inactive one
C10_Witness ==
  /\ proc = "running"
  /\ \E s \in SourceIds, t \in SourceIds :
       /\ registry[s].status = "Active"
       /\ registry[t].status = "Inactive"
       /\ \E c \in cycles : c.src = s /\ c.pc = "Idle"

\* C11: start, once the module is constructed, always returns: it leaves
\* the timers scheduled and has run no stage, written no row and delivered
\* nothing; a pipeline run begins only with the firing of a timer, in a
\* process whose start has returned.
C11_StartOnlySchedules ==
  [][ /\ proc = "constructed" =>
           /\ proc' = "running"
           /\ timers' = start(registry)
           /\ cycles' = {}
           /\ log' = {}
           /\ db' = db
      /\ \A c \in cycles' \ cycles :
           c.pc = "Scraping" =>
             /\ proc = "running"
             /\ timers[c.src] > 0
             /\ c.src \in fired' \ fired
      /\ cycles' # {} => proc' = "running" ]_vars

\* start has returned with a timer scheduled and nothing has run yet
C11_Witness ==
  /\ proc = "running"
  /\ \E s \in SourceIds : timers[s] = 1
  /\ fired = {}
  /\ cycles = {}
  /\ log = {}

====
